---- MODULE Spec2Model ----
(***************************************************************************)
(* A model of the Qwen OAuth2 device-flow client of Riceneeder/fapiao      *)
(* (src/unnamed/part_000): the retry combinator withRetry, the device      *)
(* token poller pollForToken, the token store and the authorised request   *)
(* dispatcher sendRequest, the PKCE helpers and initiateDeviceFlow.        *)
(*                                                                         *)
(* Ten specifications share  the pure definitions:                         *)
(*   SpecRetry  withRetry driven by an arbitrary fallible operation        *)
(*   SpecPoll   pollForToken against an arbitrary token endpoint           *)
(*   SpecPollLive  the same loop with no history, under fairness           *)
(*   Spec       sendRequest (load, refresh, dispatch) of one SDK instance  *)
(*   SpecHttp   one HTTP call under fetchWithTimeout                       *)
(*   SpecStore  the calls made one after another on one SDK instance       *)
(*   SpecPkce   one code verifier and its code challenge                   *)
(*   SpecFlow   initiateDeviceFlow against an arbitrary device endpoint    *)
(*   SpecRace   two overlapping sendRequest calls that both refresh        *)
(*   SpecPool   runWithConcurrency of src/upimg.ts and src/pdf2img.ts      *)
(***************************************************************************)
EXTENDS Integers, Sequences, FiniteSets, TLC

(***************************************************************************)
(* Bounds of the model (not program constants).                            *)
(***************************************************************************)
\* largest max_attempts argument tried for withRetry, besides the default
MaxAttempts == 3
\* how many times the token endpoint may answer authorization_pending or
\* slow_down to one pollForToken call before it must answer otherwise
MaxPolls == 3
\* the longest email argument tried
MaxEmailLen == 2
\* SpecPollLive: the endpoint asks to slow down only below this interval
MaxInterval == 12000
\* SpecStore: how many calls are made on the SDK instance
MaxOps == 2
\* SpecHttp: how many parts a response body arrives in, at most
MaxParts == 2
\* SpecPollLive: for how many initial intervals the endpoint may keep the
\* poller pending
MaxWaits == 2
\* Spec, SpecFlow: how often, within one call, an attempt may fail in
\* another way than the failed attempt before it
MaxFaultChanges == 1
\* SpecHttp: how long the server may stall, in halves of the timeout
MaxStall == 4
\* SpecPool: the longest items array and the largest limit tried
MaxItems == 3
MaxLimit == 3

(***************************************************************************)
(* Program constants.                                                      *)
(***************************************************************************)
MAX_RETRIES == 5
RETRY_DELAY_MS == 2000
\* line 183: the default of pollForToken's interval parameter
DEFAULT_INTERVAL_MS == 5000
\* line 137: private readonly requestTimeoutMs = 120000
REQUEST_TIMEOUT_MS == 120000

\* error?.status of an error that carries no status marker (undefined)
NoStatus == 0

(***************************************************************************)
(* JavaScript values.  A string or number field of a token, a response or  *)
(* the envelope is an integer: 0 is undefined (the field is absent), -1 is *)
(* the empty string, and k > 0 is the k-th distinct non-empty value.  An   *)
(* ISO-8601 instant is the millisecond count it denotes.  The email is     *)
(* text proper: a sequence of characters.  An optional object (the current *)
(* token, the current email) is the empty sequence or a one-element one.   *)
(***************************************************************************)
Undefined == 0
EmptyString == -1
\* JavaScript truthiness of such a value (used by ||, &&, ! and if)
Truthy(v) == v > 0

(***************************************************************************)
(* Errors and values.  An error is identified by the invocation that       *)
(* raised it ("by") and carries the optional HTTP-status marker; the       *)
(* operations of this module reject with Error objects only, so a thrown   *)
(* value is never falsy.                                                   *)
(***************************************************************************)
Null == [kind |-> "null", status |-> NoStatus, by |-> 0]
Err(status, by) == [kind |-> "error", status |-> status, by |-> by]
Val(by) == [kind |-> "value", status |-> NoStatus, by |-> by]
\* new Error('请求失败'), made by withRetry itself
RequestFailed == [kind |-> "error", status |-> NoStatus, by |-> 0]

(***************************************************************************)
(* withRetry, lines 23-44.                                                 *)
(***************************************************************************)
\* line 35: the errors that are never retried
IsFatalMutNo400(error) == error.status = 401 \/ error.status = 403
IsFatal(error) == error.status = 401 \/ error.status = 403 \/ error.status = 400

\* line 39: the duration of the sleep after failed attempt number "att"
BackoffMutConstant(d, att) == d
Backoff(d, att) == d * att

\* lines 32-41: what the catch block does with the error of attempt "att"
\*   "throw": rethrow it; "sleep": sleep, then the next attempt;
\*   "next": the next loop test straight away (the last attempt: no sleep)
OnFailureMutSleepAlways(error, att, n) ==
  IF IsFatal(error) THEN "throw" ELSE IF att <= n THEN "sleep" ELSE "next"
OnFailure(error, att, n) ==
  IF IsFatal(error) THEN "throw" ELSE IF att < n THEN "sleep" ELSE "next"

\* line 43: throw lastError || new Error('请求失败')
ExhaustedMutGeneric(last) == RequestFailed
ExhaustedMutLast(last) == last
Exhausted(last) == IF last = Null THEN RequestFailed ELSE last

(***************************************************************************)
(* Text: String.prototype.trim, line 207.                                  *)
(***************************************************************************)
Chars == {"a", " "}
IsSpace(c) == c = " "

RECURSIVE TrimStart(_)
TrimStart(str) ==
  IF str # << >> /\ IsSpace(Head(str)) THEN TrimStart(Tail(str)) ELSE str

RECURSIVE TrimEnd(_)
TrimEnd(str) ==
  IF str # << >> /\ IsSpace(str[Len(str)])
  THEN TrimEnd(SubSeq(str, 1, Len(str) - 1))
  ELSE str

TrimMutStartOnly(str) == TrimStart(str)
Trim(str) == TrimEnd(TrimStart(str))

(***************************************************************************)
(* Tokens, token responses and the stored envelope, lines 57-81.           *)
(***************************************************************************)
\* a QwenTokenResponse the token endpoint can send with a 2xx status, as the
\* k-th token response of a run: every field may be missing
ServerAccess(k) == k
ServerRefresh(k) == 100 + k
TokenResponses(k) ==
  [ access_token : {Undefined, ServerAccess(k)},
    refresh_token : {Undefined, EmptyString, ServerRefresh(k)},
    token_type : {"Bearer"},
    resource_url : {Undefined, 1},
    expires_in : {Undefined, 1, 3600} ]

\* lines 203 and 252: new Date(Date.now() + expires_in * 1000).toISOString()
\* throws a RangeError when the sum is NaN (expires_in missing)
ExpiryThrows(response) == response.expires_in = Undefined
ExpiryDate(response, t) == t + response.expires_in * 1000

\* lines 198-204: the QwenTokenData built from a poll response
PollTokenData(response, t) ==
  [ access_token |-> response.access_token,
    refresh_token |-> response.refresh_token,
    token_type |-> response.token_type,
    resource_url |-> response.resource_url,
    expiry_date |-> ExpiryDate(response, t) ]

\* no response body, no token
NoResponse ==
  [ access_token |-> Undefined, refresh_token |-> Undefined,
    token_type |-> "none", resource_url |-> Undefined,
    expires_in |-> Undefined ]
NoToken ==
  [ access_token |-> Undefined, refresh_token |-> Undefined,
    token_type |-> "none", resource_url |-> Undefined, expiry_date |-> 0 ]

\* the file at tokenStoragePath: missing, or holding an envelope
NoEnvelope ==
  [ access_token |-> Undefined, refresh_token |-> Undefined,
    last_refresh |-> 0, resource_url |-> Undefined, email |-> << >>,
    type |-> "none", expired |-> 0 ]

\* line 317: JSON.stringify(storageData, null, 2), the text of the file as
\* the members it holds: a member whose value is undefined is left out
OptionalMembers == {"access_token", "refresh_token", "resource_url"}
Members(storageData) ==
  {"last_refresh", "email", "type", "expired"}
    \cup {f \in OptionalMembers : storageData[f] # Undefined}
StringifyMutNullForMissing(storageData) ==
  [f \in DOMAIN storageData |->
     IF f \in OptionalMembers /\ storageData[f] = Undefined
     THEN EmptyString ELSE storageData[f]]
Stringify(storageData) == [f \in Members(storageData) |-> storageData[f]]

\* line 335: JSON.parse(data), read as a QwenTokenStorage: a member the text
\* does not hold reads as undefined
Member(text, f) == IF f \in DOMAIN text THEN text[f] ELSE Undefined
Parse(text) ==
  [ access_token |-> Member(text, "access_token"),
    refresh_token |-> Member(text, "refresh_token"),
    last_refresh |-> text.last_refresh,
    resource_url |-> Member(text, "resource_url"),
    email |-> text.email,
    type |-> text.type,
    expired |-> text.expired ]

NoFile == [state |-> "absent", text |-> Stringify(NoEnvelope)]
File(env) == [state |-> "file", text |-> Stringify(env)]
\* the envelope a reader of the file d gets
Envelope(d) == Parse(d.text)

\* lines 302-310: the QwenTokenStorage built by saveTokenToStorage
StorageDataMutKeepEmail(token, mail, t, old) ==
  [ access_token |-> token.access_token,
    refresh_token |-> token.refresh_token,
    last_refresh |-> t,
    resource_url |-> token.resource_url,
    email |-> IF old.state = "file" THEN Envelope(old).email ELSE mail,
    type |-> "qwen",
    expired |-> token.expiry_date ]
StorageData(token, mail, t, old) ==
  [ access_token |-> token.access_token,
    refresh_token |-> token.refresh_token,
    last_refresh |-> t,
    resource_url |-> token.resource_url,
    email |-> mail,
    type |-> "qwen",
    expired |-> token.expiry_date ]

\* lines 312-318: writeFile replaces the whole content of the file
WriteFileMutMerge(old, env) ==
  [ state |-> "file",
    text |-> [f \in DOMAIN Stringify(env)
                     \cup (IF old.state = "file" THEN DOMAIN old.text ELSE {})
              |-> IF f \in DOMAIN Stringify(env)
                  THEN Stringify(env)[f] ELSE old.text[f]] ]
WriteFile(old, env) == File(env)

\* an envelope left by an earlier session
OldEnvelope ==
  [ access_token |-> 50, refresh_token |-> 51, last_refresh |-> 0,
    resource_url |-> 2, email |-> <<"a">>, type |-> "qwen", expired |-> 500 ]

(***************************************************************************)
(* pollForToken's catch block, lines 210-229.                              *)
(***************************************************************************)
\* error.data.error of the 400 responses that keep the poller pending
AuthorizationPending == 1
SlowDown == 2
\* any other error code, e.g. expired_token or access_denied
OtherCode == 3

\* what a failed iteration threw: the status marker (error.status), whether
\* error.data is truthy (the body decoded as JSON to an object; FALSE when
\* the body is no JSON, or for an error that is no HTTP error), the error
\* member of that object (Undefined when there is none) and whether the
\* message mentions user_code
PollError(status, data, code, mentions) ==
  [status |-> status, data |-> data, code |-> code, user_code |-> mentions]

\* lines 214-229: "user_code": throw the malformed-session error;
\* "pending": sleep the interval; "slow_down": grow the interval, then
\* sleep; "throw": throw the extracted message
PollCatchMutRetryAll(error) ==
  IF error.status = 400 /\ ~error.data /\ error.user_code
  THEN "user_code"
  ELSE IF error.status = 400 /\ error.code = AuthorizationPending
  THEN "pending"
  ELSE IF error.status = 400 /\ error.code = SlowDown
  THEN "slow_down"
  ELSE IF error.status = NoStatus THEN "pending" ELSE "throw"
PollCatchMutGiveUp(error) ==
  IF error.status = 400 /\ error.code = SlowDown THEN "slow_down" ELSE "throw"
PollCatch(error) ==
  IF error.status = 400 /\ ~error.data /\ error.user_code
  THEN "user_code"
  ELSE IF error.status = 400 /\ error.code = AuthorizationPending
  THEN "pending"
  ELSE IF error.status = 400 /\ error.code = SlowDown
  THEN "slow_down"
  ELSE "throw"

\* line 224: Math.floor(interval * 1.5)
SlowedMutNoFloor(i) == (i * 3 + 1) \div 2
SlowedMutDouble(i) == i * 2
Slowed(i) == (i * 3) \div 2

(***************************************************************************)
(* refreshToken, loadTokenFromStorage and sendRequest: the pure parts.     *)
(***************************************************************************)
\* lines 128-130: new Date() >= parseExpiry(token.expiry_date)
IsTokenExpired(token, t) == t >= token.expiry_date

\* line 271: the test that sends sendRequest through refreshToken
NeedsRefreshMutNever(token, t) == FALSE
NeedsRefreshMutExpiredOnly(token, t) == IsTokenExpired(token, t)
NeedsRefresh(token, t) ==
  IsTokenExpired(token, t) /\ Truthy(token.refresh_token)

\* lines 247-253: the QwenTokenData built from a refresh response
RefreshTokenDataMutDropOld(response, refreshToken, t) ==
  [ access_token |-> response.access_token,
    refresh_token |-> response.refresh_token,
    token_type |-> response.token_type,
    resource_url |-> response.resource_url,
    expiry_date |-> ExpiryDate(response, t) ]
RefreshTokenData(response, refreshToken, t) ==
  [ access_token |-> response.access_token,
    refresh_token |-> IF Truthy(response.refresh_token)
                      THEN response.refresh_token ELSE refreshToken,
    token_type |-> response.token_type,
    resource_url |-> response.resource_url,
    expiry_date |-> ExpiryDate(response, t) ]

\* line 256: this.currentEmail || 'unknown'
UnknownEmail == <<"u", "n", "k", "n", "o", "w", "n">>
RefreshEmailMutAlwaysUnknown(mail) == UnknownEmail
RefreshEmail(mail) ==
  IF mail # << >> /\ mail[1] # << >> THEN mail[1] ELSE UnknownEmail

\* lines 337-343: the QwenTokenData read back from the envelope
LoadedToken(env) ==
  [ access_token |-> env.access_token,
    refresh_token |-> env.refresh_token,
    token_type |-> "Bearer",
    resource_url |-> env.resource_url,
    expiry_date |-> env.expired ]

\* a file that JSON.parse rejects
CorruptFile == [state |-> "corrupt", text |-> Stringify(NoEnvelope)]

\* lines 313-318: what a save that rejects leaves of the file "old": the
\* file as it was (mkdir or open rejects), or a truncated text (writeFile
\* truncates the file before it writes and rejects part way)
FailedWrite(old) == {old, CorruptFile}

\* lines 331-354: what loadTokenFromStorage returns, << >> for null, given
\* the file d and whether readFile resolves: null when existsSync is false,
\* when readFile rejects and when JSON.parse throws
LoadMutIgnoreCorrupt(d, readable) ==
  IF d.state # "absent" /\ readable THEN <<LoadedToken(Envelope(d))>> ELSE << >>
Load(d, readable) ==
  IF d.state = "file" /\ readable THEN <<LoadedToken(Envelope(d))>> ELSE << >>

\* lines 337-346: this.currentToken and this.currentEmail after the load,
\* assigned only when the text was read and parsed
LoadedCurrent(d, readable, cur) ==
  IF Load(d, readable) # << >> THEN Load(d, readable) ELSE cur
LoadedEmailMutClear(d, readable, mail) ==
  IF Load(d, readable) # << >> THEN <<Envelope(d).email>> ELSE << >>
LoadedEmail(d, readable, mail) ==
  IF Load(d, readable) # << >> THEN <<Envelope(d).email>> ELSE mail

\* line 373: the token after "Bearer " in the Authorization header,
\* this.currentToken?.access_token ?? ''
Bearer(cur) ==
  IF cur = << >> \/ cur[1].access_token = Undefined
  THEN EmptyString
  ELSE cur[1].access_token

\* resource_url texts: k in 1 .. Blank - 1 is the host name 'vk', Blank a
\* text of white space only, Slashed(k) the text 'vk/'
Blank == 1000
Slashed(k) == Blank + k
\* the host portal.qwen.ai of line 367
DefaultHost == Undefined

\* lines 362-368: the host of the URL built from "resource": the text less
\* one trailing slash when it is truthy and not blank, the default host
\* otherwise
buildBaseUrl(resource) ==
  IF Truthy(resource) /\ resource # Blank
  THEN (IF resource > Blank THEN resource - Blank ELSE resource)
  ELSE DefaultHost

\* line 276: buildBaseUrl(this.currentToken?.resource_url)
Host(cur) ==
  buildBaseUrl(IF cur = << >> THEN Undefined ELSE cur[1].resource_url)

(***************************************************************************)
(* PKCE, lines 105-122.  A Buffer is a sequence of bytes, a string the     *)
(* sequence of its character codes.                                        *)
(***************************************************************************)
\* the number of random bytes of a verifier, crypto.randomBytes(32)
VERIFIER_BYTES == 32
\* the character codes of '+', '-', '/', '=' and '_'
Plus == 43
Minus == 45
Slash == 47
Equals == 61
Underscore == 95
\* the base64 alphabet: the character code of the digit of value i
Base64Digit(i) ==
  CASE i < 26 -> 65 + i
    [] i < 52 -> 97 + (i - 26)
    [] i < 62 -> 48 + (i - 52)
    [] i = 62 -> Plus
    [] OTHER -> Slash
\* line 118: Buffer.prototype.toString('base64'), padded with '='
RECURSIVE ToBase64(_)
ToBase64(buf) ==
  CASE Len(buf) = 0 -> << >>
    [] Len(buf) = 1 ->
         <<Base64Digit(buf[1] \div 4), Base64Digit((buf[1] % 4) * 16),
           Equals, Equals>>
    [] Len(buf) = 2 ->
         <<Base64Digit(buf[1] \div 4),
           Base64Digit((buf[1] % 4) * 16 + (buf[2] \div 16)),
           Base64Digit((buf[2] % 16) * 4), Equals>>
    [] OTHER ->
         <<Base64Digit(buf[1] \div 4),
           Base64Digit((buf[1] % 4) * 16 + (buf[2] \div 16)),
           Base64Digit((buf[2] % 16) * 4 + (buf[3] \div 64)),
           Base64Digit(buf[3] % 64)>>
           \o ToBase64(SubSeq(buf, 4, Len(buf)))
\* String.prototype.replace with a global pattern of one character
RECURSIVE ReplaceAll(_, _, _)
ReplaceAll(text, from, to) ==
  IF text = << >> THEN << >>
  ELSE <<IF Head(text) = from THEN to ELSE Head(text)>>
         \o ReplaceAll(Tail(text), from, to)
\* line 121: .replace(/=+$/, '')
RECURSIVE StripPadding(_)
StripPadding(text) ==
  IF text # << >> /\ text[Len(text)] = Equals
  THEN StripPadding(SubSeq(text, 1, Len(text) - 1))
  ELSE text
\* lines 117-122
base64URLEncodeMutKeepPadding(buf) ==
  ReplaceAll(ReplaceAll(ToBase64(buf), Plus, Minus), Slash, Underscore)
base64URLEncode(buf) ==
  StripPadding(
    ReplaceAll(ReplaceAll(ToBase64(buf), Plus, Minus), Slash, Underscore))

\* hash.update(string): the UTF-8 encoding of the string (code points below
\* 2048)
RECURSIVE Utf8(_)
Utf8(text) ==
  IF text = << >> THEN << >>
  ELSE (IF Head(text) < 128 THEN <<Head(text)>>
        ELSE <<192 + (Head(text) \div 64), 128 + (Head(text) % 64)>>)
         \o Utf8(Tail(text))

(***************************************************************************)
(* SHA-256 (FIPS 180-4), what crypto.createHash('sha256') of line 111      *)
(* computes.                                                               *)
(***************************************************************************)
\* a 32-bit word is the pair <<hi, lo>> of its 16-bit halves
RECURSIVE Xor16(_, _)
Xor16(a, b) ==
  IF a = 0 THEN b
  ELSE IF b = 0 THEN a
  ELSE ((a + b) % 2) + 2 * Xor16(a \div 2, b \div 2)
Xor3(x, y, z) ==
  <<Xor16(Xor16(x[1], y[1]), z[1]), Xor16(Xor16(x[2], y[2]), z[2])>>
\* rotation and shift to the right by n bits, 0 < n < 32
Rotr(x, n) ==
  LET hi == IF n < 16 THEN x[1] ELSE x[2]
      lo == IF n < 16 THEN x[2] ELSE x[1]
      m == n % 16
  IN <<(hi \div (2 ^ m)) + (lo % (2 ^ m)) * (2 ^ (16 - m)),
       (lo \div (2 ^ m)) + (hi % (2 ^ m)) * (2 ^ (16 - m))>>
Shr(x, n) ==
  IF n < 16
  THEN <<x[1] \div (2 ^ n),
        (x[2] \div (2 ^ n)) + (x[1] % (2 ^ n)) * (2 ^ (16 - n))>>
  ELSE <<0, x[1] \div (2 ^ (n - 16))>>
\* addition modulo 2^32 of the words of ws
RECURSIVE SumHalf(_, _)
SumHalf(ws, h) == IF ws = << >> THEN 0 ELSE Head(ws)[h] + SumHalf(Tail(ws), h)
Sum(ws) ==
  LET lo == SumHalf(ws, 2)
      hi == SumHalf(ws, 1) + (lo \div 65536)
  IN <<hi % 65536, lo % 65536>>

\* the functions of FIPS 180-4, section 4.1.2
RECURSIVE Ch16(_, _, _, _)
Ch16(x, y, z, n) ==
  IF n = 0 THEN 0
  ELSE (IF x % 2 = 1 THEN y % 2 ELSE z % 2)
         + 2 * Ch16(x \div 2, y \div 2, z \div 2, n - 1)
Ch(x, y, z) == <<Ch16(x[1], y[1], z[1], 16), Ch16(x[2], y[2], z[2], 16)>>
RECURSIVE Maj16(_, _, _, _)
Maj16(x, y, z, n) ==
  IF n = 0 THEN 0
  ELSE (((x % 2) + (y % 2) + (z % 2)) \div 2)
         + 2 * Maj16(x \div 2, y \div 2, z \div 2, n - 1)
Maj(x, y, z) == <<Maj16(x[1], y[1], z[1], 16), Maj16(x[2], y[2], z[2], 16)>>
BigSigma0(x) == Xor3(Rotr(x, 2), Rotr(x, 13), Rotr(x, 22))
BigSigma1(x) == Xor3(Rotr(x, 6), Rotr(x, 11), Rotr(x, 25))
SmallSigma0(x) == Xor3(Rotr(x, 7), Rotr(x, 18), Shr(x, 3))
SmallSigma1(x) == Xor3(Rotr(x, 17), Rotr(x, 19), Shr(x, 10))

\* the round constants and the initial hash value, section 4.2.2 and 5.3.3
K256 ==
  << <<17034, 12184>>, <<28983, 17553>>, <<46528, 64463>>, <<59829, 56229>>,
     <<14678, 49755>>, <<23025, 4593>>, <<37439, 33444>>, <<43804, 24277>>,
     <<55303, 43672>>, <<4739, 23297>>, <<9265, 34238>>, <<21772, 32195>>,
     <<29374, 23924>>, <<32990, 45566>>, <<39900, 1703>>, <<49563, 61812>>,
     <<58523, 27073>>, <<61374, 18310>>, <<4033, 40390>>, <<9228, 41420>>,
     <<11753, 11375>>, <<19060, 33962>>, <<23728, 43484>>, <<30457, 35034>>,
     <<38974, 20818>>, <<43057, 50797>>, <<45059, 10184>>, <<48985, 32711>>,
     <<50912, 3059>>, <<54695, 37191>>, <<1738, 25425>>, <<5161, 10599>>,
     <<10167, 2693>>, <<11803, 8504>>, <<19756, 28156>>, <<21304, 3347>>,
     <<25866, 29524>>, <<30314, 2747>>, <<33218, 51502>>, <<37490, 11397>>,
     <<41663, 59553>>, <<43034, 26187>>, <<49739, 35696>>, <<51052, 20899>>,
     <<53650, 59417>>, <<54937, 1572>>, <<62478, 13701>>, <<4202, 41072>>,
     <<6564, 49430>>, <<7735, 27656>>, <<10056, 30540>>, <<13488, 48309>>,
     <<14620, 3251>>, <<20184, 43594>>, <<23452, 51791>>, <<26670, 28659>>,
     <<29839, 33518>>, <<30885, 25455>>, <<33992, 30740>>, <<36039, 520>>,
     <<37054, 65530>>, <<42064, 27883>>, <<48889, 41975>>, <<50801, 30962>> >>
H256 ==
  << <<27145, 58983>>, <<47975, 44677>>, <<15470, 62322>>, <<42319, 62778>>,
     <<20750, 21119>>, <<39685, 26764>>, <<8067, 55723>>, <<23520, 52505>> >>

\* section 5.1.1: the message, the byte 0x80, zero bytes up to 56 modulo
\* 64, and the length of the message in bits as eight bytes
Padded(m) ==
  LET zeros == (55 - Len(m)) % 64
      bits == 8 * Len(m)
  IN m \o <<128>> \o [i \in 1 .. zeros |-> 0]
       \o <<0, 0, 0, 0, (bits \div 16777216) % 256, (bits \div 65536) % 256,
            (bits \div 256) % 256, bits % 256>>

\* section 6.2.2, step 1: the message schedule of a 64-byte block
RECURSIVE Schedule(_)
Schedule(w) ==
  IF Len(w) = 64 THEN w
  ELSE LET t == Len(w) + 1
       IN Schedule(Append(w,
            Sum(<<SmallSigma1(w[t - 2]), w[t - 7], SmallSigma0(w[t - 15]),
                  w[t - 16]>>)))
RECURSIVE BlockWords(_)
BlockWords(block) ==
  IF block = << >> THEN << >>
  ELSE <<<<256 * block[1] + block[2], 256 * block[3] + block[4]>>>>
         \o BlockWords(SubSeq(block, 5, Len(block)))

\* section 6.2.2, step 3: rounds t .. 64 on the working variables a .. h
\* (the test on Len(v) has v computed at every round)
RECURSIVE Rounds(_, _, _)
Rounds(v, w, t) ==
  IF t > 64 \/ Len(v) # 8 THEN v
  ELSE LET t1 == Sum(<<v[8], BigSigma1(v[5]), Ch(v[5], v[6], v[7]),
                       K256[t], w[t]>>)
           t2 == Sum(<<BigSigma0(v[1]), Maj(v[1], v[2], v[3])>>)
       IN Rounds(<<Sum(<<t1, t2>>), v[1], v[2], v[3], Sum(<<v[4], t1>>),
                   v[5], v[6], v[7]>>, w, t + 1)

\* section 6.2.2: the hash value after one more block
Compress(h, block) ==
  LET v == Rounds(h, Schedule(BlockWords(block)), 1)
  IN <<Sum(<<h[1], v[1]>>), Sum(<<h[2], v[2]>>), Sum(<<h[3], v[3]>>),
       Sum(<<h[4], v[4]>>), Sum(<<h[5], v[5]>>), Sum(<<h[6], v[6]>>),
       Sum(<<h[7], v[7]>>), Sum(<<h[8], v[8]>>)>>
RECURSIVE Blocks(_, _)
Blocks(h, m) ==
  IF m = << >> THEN h
  ELSE Blocks(Compress(h, SubSeq(m, 1, 64)), SubSeq(m, 65, Len(m)))
RECURSIVE WordBytes(_)
WordBytes(h) ==
  IF h = << >> THEN << >>
  ELSE <<Head(h)[1] \div 256, Head(h)[1] % 256,
         Head(h)[2] \div 256, Head(h)[2] % 256>> \o WordBytes(Tail(h))

\* lines 111-113: crypto.createHash('sha256').update(m).digest(), m and the
\* digest as sequences of bytes
Sha256(m) == WordBytes(Blocks(H256, Padded(m)))

\* lines 105-108: the verifier made from the random bytes "bytes"
generateCodeVerifier(bytes) == base64URLEncode(bytes)
\* lines 110-114
generateCodeChallenge(verifier) == base64URLEncode(Sha256(Utf8(verifier)))

VARIABLES
  \* ---- withRetry under test (SpecRetry)
  retries,      \* the max_attempts argument
  delay,        \* the base delay argument
  attempt,      \* the loop variable
  lastError,    \* the last error caught, Null before the first
  rpc,          \* "loop" | "sleeping" | "returned" | "thrown"
  outcomes,     \* history: the outcome of each invocation of fn, in order
  sleeps,       \* history: the duration of each sleep, in order
  rresult,      \* what withRetry returned or threw, Null while running
  \* ---- the SDK instance and its environment
  currentToken, \* this.currentToken: << >> or <<token>>
  currentEmail, \* this.currentEmail: << >> or <<email>>
  disk,         \* the file at tokenStoragePath
  now,          \* Date.now(), in milliseconds
  \* ---- one pollForToken call (SpecPoll, SpecPollLive)
  email,        \* the email argument
  interval,     \* the interval parameter, reassigned by slow_down
  intervalArg,  \* history: the interval argument as passed
  ppc,          \* "request" | "sleeping" | "returned" | "thrown"
  polls,        \* history: what each token request met, in order
  psleeps,      \* history: the duration of each sleep, in order
  presult,      \* what pollForToken returned or threw
  keep,         \* "all": polls and psleeps hold the whole history;
                \* "last": they hold the last entry only (a finite
                \* state space for the unbounded loop)
  \* ---- the sendRequest calls (Spec), one entry per call
  spc,          \* "idle" | "refresh" | "refresh_sleep" | "dispatch" |
                \* "dispatch_sleep" | "returned" | "thrown"; in SpecRace
                \* also "saving" (refreshToken is at line 257, the file
                \* not yet opened), "writing" (the file is opened and
                \* truncated, the text not yet written) and "written"
                \* (the text is in the file, writeFile has yet to
                \* resolve)
  sattempt,     \* attempt of the withRetry loop the call is in
  slast,        \* lastError of that loop
  sarg,         \* the refreshToken argument of the call's refreshToken
  sresult,      \* what sendRequest returned or threw
  sstart,       \* history: the current token when the call began,
                \* whether it had expired, how the load went and what
                \* the file was
  sadopted,     \* history: the token the call's refreshToken returned,
                \* the attempt that returned it and the response it
                \* was built from
  sfault,       \* environment: how the call's last failed attempt
                \* failed, and how often its failures have changed
  wire,         \* history: every HTTP request sent and what it met
  ssleeps,      \* history: every sleep of a call's withRetry loops
  \* ---- one HTTP call of the SDK (SpecHttp)
  hcaller,      \* "device" | "poll" | "refresh" | "dispatch"
  hpc,          \* "idle" | "connecting" | "body" | "done" | "aborted" |
                \* "failed"
  htimer,       \* the abort timer: "unset" | "armed" | "cleared" | "fired"
  helapsed,     \* milliseconds since fetchWithTimeout was entered
  hbody,        \* the response: ok or not, streamed or not, how many
                \* parts its body has and how many of them have arrived
  \* ---- the calls made on one SDK instance, one after another (SpecStore)
  op,           \* history: the last call that finished, its arguments,
                \* what it found and what it returned or threw
  nops,         \* how many calls have finished
  saved,        \* history: the arguments of the saveTokenToStorage that
                \* wrote the file as it is and when it did, << >> if
                \* none did
  \* ---- one initiateDeviceFlow call (SpecFlow) or one PKCE pair (SpecPkce)
  fpc,          \* "idle" | "attempt" | "sleeping" | "returned" | "thrown";
                \* "bytes" | "verifier" | "challenge" in SpecPkce
  fattempt,     \* attempt of the withRetry loop
  flast,        \* lastError of that loop
  ffault,       \* environment: how the last failed attempt failed, and
                \* how often the failures of the call have changed
  fgenerated,   \* history: the verifiers generated, in order
  fwire,        \* history: every device-code request and what it met
  fsleeps,      \* history: the duration of each sleep
  fresult,      \* what initiateDeviceFlow returned or threw
  \* ---- one runWithConcurrency call (SpecPool)
  citems,       \* the items argument
  climit,       \* the limit argument
  cidx,         \* idx, the index of the next item to hand out
  cresults,     \* results: a function from the indices written to the
                \* values written
  cworkers,     \* the async callbacks of Array.from started so far: each
                \* awaits worker(items[current]) or has returned
  chanded,      \* history: the indices handed to worker, in order
  ccompleted,   \* history: the indices whose worker call resolved, in order
  cpc           \* "idle" | "spawning" | "running" | "resolved"

retryVars ==
  <<retries, delay, attempt, lastError, rpc, outcomes, sleeps, rresult>>
sdkVars == <<currentToken, currentEmail, disk, now>>
pollVars ==
  <<email, interval, intervalArg, ppc, polls, psleeps, presult, keep>>

sendVars ==
  <<spc, sattempt, slast, sarg, sresult, sstart, sadopted, sfault, wire,
    ssleeps>>

httpVars == <<hcaller, hpc, htimer, helapsed, hbody>>
storeVars == <<op, nops, saved>>
flowVars ==
  <<fpc, fattempt, flast, ffault, fgenerated, fwire, fsleeps, fresult>>
poolVars ==
  <<citems, climit, cidx, cresults, cworkers, chanded, ccompleted, cpc>>
auxVars == <<httpVars, storeVars, flowVars, poolVars>>

vars == <<retryVars, sdkVars, pollVars, sendVars, auxVars>>

\* the sendRequest calls of one SDK instance
Calls == {1, 2}

\* the variables a specification does not use stay as they are here
RetryIdle ==
  /\ retries = 0 /\ delay = 0 /\ attempt = 0 /\ lastError = Null
  /\ rpc = "idle" /\ outcomes = << >> /\ sleeps = << >> /\ rresult = Null
PollIdle ==
  /\ email = << >> /\ interval = 0 /\ intervalArg = 0 /\ ppc = "idle"
  /\ polls = << >> /\ psleeps = << >>
  /\ presult = [kind |-> "none", token |-> NoToken, message |-> ""]
  /\ keep = "all"
NoBody == [ok |-> FALSE, stream |-> FALSE, parts |-> 0, read |-> 0]
HttpIdle ==
  /\ hcaller = "none" /\ hpc = "idle" /\ htimer = "unset"
  /\ helapsed = 0 /\ hbody = NoBody
NoOp == [name |-> "none"]
StoreIdle == op = NoOp /\ nops = 0 /\ saved = << >>
PoolIdle ==
  /\ citems = << >> /\ climit = 0 /\ cidx = 0 /\ cresults = << >>
  /\ cworkers = << >> /\ chanded = << >> /\ ccompleted = << >>
  /\ cpc = "idle"
FlowIdle ==
  /\ fpc = "idle" /\ fattempt = 0 /\ flast = Null
  /\ ffault = [kind |-> "none", status |-> NoStatus, field |-> "none",
               value |-> Undefined, changes |-> 0]
  /\ fgenerated = << >> /\ fwire = << >> /\ fsleeps = << >>
  /\ fresult = Null
SdkIdle ==
  /\ currentToken = << >> /\ currentEmail = << >>
  /\ disk = NoFile /\ now = 0
NotStarted ==
  [token |-> << >>, expired |-> FALSE, load |-> "none", file |-> "none"]
NoFault == [kind |-> "none", status |-> NoStatus, changes |-> 0]
SendIdle ==
  /\ spc = [c \in Calls |-> "idle"]
  /\ sattempt = [c \in Calls |-> 0]
  /\ slast = [c \in Calls |-> Null]
  /\ sarg = [c \in Calls |-> Undefined]
  /\ sresult = [c \in Calls |-> Null]
  /\ sstart = [c \in Calls |-> NotStarted]
  /\ sadopted = [c \in Calls |-> << >>]
  /\ sfault = [c \in Calls |-> NoFault]
  /\ wire = << >>
  /\ ssleeps = << >>

\* the status markers the operation's errors may carry
ThrownStatuses == {NoStatus, 400, 401, 403, 404, 500}
\* the max_attempts and base_delay arguments tried
RetriesArgs == ((-1) .. MaxAttempts) \cup {MAX_RETRIES}
DelayArgs == {1, 7, RETRY_DELAY_MS}

RetryInit ==
  /\ retries \in RetriesArgs
  /\ delay \in DelayArgs
  /\ attempt = 1
  /\ lastError = Null
  /\ rpc = "loop"
  /\ outcomes = << >>
  /\ sleeps = << >>
  /\ rresult = Null
  /\ SdkIdle
  /\ PollIdle
  /\ SendIdle
  /\ HttpIdle
  /\ StoreIdle
  /\ FlowIdle
  /\ PoolIdle

\* lines 29-31: the loop test passes, fn is invoked and resolves
RetryCallOk ==
  /\ rpc = "loop"
  /\ attempt <= retries
  /\ outcomes' = Append(outcomes, Val(attempt))
  /\ rresult' = Val(attempt)
  /\ rpc' = "returned"
  /\ UNCHANGED <<retries, delay, attempt, lastError, sleeps>>
  /\ UNCHANGED <<sdkVars, pollVars, sendVars, auxVars>>

\* lines 29-41: the loop test passes, fn is invoked and rejects
RetryCallFail ==
  /\ rpc = "loop"
  /\ attempt <= retries
  /\ \E s \in ThrownStatuses :
       LET error == Err(s, attempt)
           todo == OnFailure(error, attempt, retries)
       IN /\ outcomes' = Append(outcomes, error)
          /\ lastError' = error
          /\ rpc' = CASE todo = "throw" -> "thrown"
                      [] todo = "sleep" -> "sleeping"
                      [] OTHER -> "loop"
          /\ rresult' = IF todo = "throw" THEN error ELSE rresult
          /\ sleeps' = IF todo = "sleep"
                       THEN Append(sleeps, Backoff(delay, attempt))
                       ELSE sleeps
          /\ attempt' = IF todo = "next" THEN attempt + 1 ELSE attempt
  /\ UNCHANGED <<retries, delay, sdkVars, pollVars, sendVars, auxVars>>

\* line 39: the timer fires; the loop goes to its next attempt
RetryWake ==
  /\ rpc = "sleeping"
  /\ attempt' = attempt + 1
  /\ rpc' = "loop"
  /\ UNCHANGED <<retries, delay, lastError, outcomes, sleeps, rresult>>
  /\ UNCHANGED <<sdkVars, pollVars, sendVars, auxVars>>

\* lines 29 and 43: the loop test fails
RetryExhausted ==
  /\ rpc = "loop"
  /\ attempt > retries
  /\ rresult' = Exhausted(lastError)
  /\ rpc' = "thrown"
  /\ UNCHANGED <<retries, delay, attempt, lastError, outcomes, sleeps>>
  /\ UNCHANGED <<sdkVars, pollVars, sendVars, auxVars>>

RetryNext == RetryCallOk \/ RetryCallFail \/ RetryWake \/ RetryExhausted

SpecRetry == RetryInit /\ [][RetryNext]_vars

RetryDone == rpc \in {"returned", "thrown"}
\* the number of invocations of fn so far
Invocations == Len(outcomes)
Failed(k) == outcomes[k].kind = "error"

(***************************************************************************)
(* Claims about withRetry, checked under SpecRetry.                        *)
(***************************************************************************)
\* C1: an invocation that fails with an error marked 401, 403 or 400 is the
\* last one: withRetry has thrown that very error, and no sleep was taken
\* after it (every sleep follows an earlier failure); a 401 at the first
\* attempt leaves exactly one invocation and no sleep at all.
C1_FatalIsNotRetried ==
  \A k \in 1 .. Invocations :
    (Failed(k) /\ outcomes[k].status \in {401, 403, 400}) =>
      /\ k = Invocations
      /\ rpc = "thrown"
      /\ rresult = outcomes[k]
      /\ Len(sleeps) = k - 1

C1_Witness ==
  /\ retries = MAX_RETRIES
  /\ rpc = "thrown"
  /\ Invocations = 1
  /\ outcomes[1].status = 401

\* C2: the k-th sleep follows the k-th failed attempt, with k < max_attempts,
\* and lasts base_delay * k; after two unmarked failures and a success at
\* the third attempt withRetry has returned that attempt's value, after
\* three invocations and the two sleeps base_delay*1, base_delay*2.
C2_LinearBackoff ==
  /\ \A k \in 1 .. Len(sleeps) :
       /\ sleeps[k] = delay * k
       /\ k < retries
       /\ k <= Invocations /\ Failed(k)
  /\ (rpc = "sleeping") => Len(sleeps) = attempt
  /\ ( /\ Invocations = 3
       /\ outcomes[1] = Err(NoStatus, 1)
       /\ outcomes[2] = Err(NoStatus, 2)
       /\ outcomes[3].kind = "value" ) =>
       /\ rpc = "returned"
       /\ rresult = outcomes[3]
       /\ sleeps = <<delay * 1, delay * 2>>

C2_Witness ==
  /\ delay = RETRY_DELAY_MS
  /\ rpc = "returned"
  /\ Invocations = 3
  /\ outcomes[1] = Err(NoStatus, 1)
  /\ outcomes[2] = Err(NoStatus, 2)
  /\ rresult = Val(3)
  /\ sleeps = <<2000, 4000>>

\* every invocation so far failed with an error not marked 401/403/400
AllTransient ==
  \A k \in 1 .. Invocations : Failed(k) /\ ~IsFatal(outcomes[k])

\* C3: with max_attempts = n >= 1 and every invocation failing with an
\* unmarked or otherwise non-fatal error, withRetry ends by throwing the
\* error of the n-th invocation after exactly n invocations and n-1 sleeps.
C3_ExhaustionThrowsLast ==
  (RetryDone /\ retries >= 1 /\ AllTransient) =>
    /\ rpc = "thrown"
    /\ Invocations = retries
    /\ Len(sleeps) = retries - 1
    /\ rresult = outcomes[retries]

C3_Witness ==
  /\ RetryDone
  /\ retries = MAX_RETRIES
  /\ AllTransient
  /\ Invocations = 5
  /\ rresult = Err(500, 5)

\* C31: withRetry with max_attempts <= 0 never invokes the operation and
\* throws the generic request-failed error; with max_attempts >= 1 it
\* invokes the operation at most max_attempts times, and at least once
\* before it returns or throws.
C31_AttemptsWithinBudget ==
  /\ (retries <= 0) =>
       /\ Invocations = 0
       /\ RetryDone => (rpc = "thrown" /\ rresult = RequestFailed)
  /\ (retries >= 1) =>
       /\ Invocations <= retries
       /\ RetryDone => Invocations >= 1

\* withRetry(fn, 0) has thrown without a call of fn
C31_Witness ==
  /\ retries = 0
  /\ rpc = "thrown"
  /\ Invocations = 0
  /\ rresult = RequestFailed
  /\ sleeps = << >>

(***************************************************************************)
(* pollForToken, lines 183-232, against an arbitrary token endpoint and an *)
(* arbitrary file system.                                                  *)
(***************************************************************************)
Emails == UNION {[1 .. n -> Chars] : n \in 0 .. MaxEmailLen}
IntervalArgs == {0, 1, 3, DEFAULT_INTERVAL_MS}
HttpErrorStatuses == {400, 401, 403, 500}
ErrorCodes == {Undefined, AuthorizationPending, SlowDown, OtherCode}

\* a history entry: what one token request met
\*   ok: response.ok; status: the HTTP status (NoStatus: no response at all)
\*   code, user_code: as in PollError; json: the body decoded as JSON to
\*   an object
\*   body: the 2xx body; save: "ok" | "fail" | "none" (no write attempted)
Met(ok, status, code, mentions, json, body, save) ==
  [ ok |-> ok, status |-> status, code |-> code, user_code |-> mentions,
    json |-> json, body |-> body, save |-> save ]

\* the responses that keep a device-flow poller pending (RFC 8628)
KeepsPending(m) ==
  ~m.ok /\ m.status = 400 /\ m.code \in {AuthorizationPending, SlowDown}
PendingCount == Cardinality({k \in 1 .. Len(polls) : KeepsPending(polls[k])})

PollStart ==
  /\ RetryIdle
  /\ SendIdle
  /\ HttpIdle
  /\ StoreIdle
  /\ FlowIdle
  /\ PoolIdle
  /\ currentToken = << >>
  /\ currentEmail = << >>
  /\ disk \in {NoFile, File(OldEnvelope)}
  /\ now = 0
  /\ email \in Emails
  /\ interval \in IntervalArgs
  /\ intervalArg = interval
  /\ ppc = "request"
  /\ polls = << >>
  /\ psleeps = << >>
  /\ presult = [kind |-> "none", token |-> NoToken, message |-> ""]

PollInit == PollStart /\ keep = "all"

\* the history after one more entry
Record(log, entry) == IF keep = "all" THEN Append(log, entry) ELSE <<entry>>

\* lines 185-196: the loop is at its token request; with the whole history
\* kept, the endpoint is asked at most MaxPolls + 1 times in a run
AtRequest == ppc = "request" /\ (keep = "all" => Len(polls) <= MaxPolls)

\* the endpoint still holds the device code: it keeps a poller pending for
\* MaxWaits initial intervals of time (for ever when the interval is 0)
WithinHorizon == now <= MaxWaits * intervalArg

\* what bounds the endpoint's answers: with the whole history kept, at most
\* MaxPolls answers that keep the poller pending; without, such answers
\* only within the horizon, and no slow_down once the interval has reached
\* MaxInterval
ServerMay(met) ==
  IF keep = "all"
  THEN KeepsPending(met) => PendingCount < MaxPolls
  ELSE KeepsPending(met) =>
         /\ WithinHorizon
         /\ (met.code = SlowDown) => interval < MaxInterval

\* lines 210-229: the catch block, entered with "error"
PollCaught(error) ==
  LET todo == PollCatch(error)
      next == IF todo = "slow_down" THEN Slowed(interval) ELSE interval
  IN /\ interval' = next
     /\ IF todo \in {"pending", "slow_down"}
        THEN /\ ppc' = "sleeping"
             /\ psleeps' = Record(psleeps, next)
             /\ presult' = presult
        ELSE /\ ppc' = "thrown"
             /\ psleeps' = psleeps
             /\ presult' = [kind |-> "error", token |-> NoToken,
                            message |-> todo]

\* lines 193-209: a 2xx response with a usable body, and the write succeeds
PollSuccess ==
  /\ AtRequest
  /\ \E response \in TokenResponses(Len(polls) + 1) :
       /\ ~ExpiryThrows(response)
       /\ LET tokenData == PollTokenData(response, now)
          IN /\ currentToken' = <<tokenData>>
             /\ currentEmail' = <<Trim(email)>>
             /\ disk' = WriteFile(disk,
                          StorageData(tokenData, Trim(email), now, disk))
             /\ presult' = [kind |-> "token", token |-> tokenData,
                            message |-> ""]
             /\ polls' = Record(polls,
                  Met(TRUE, 200, Undefined, FALSE, TRUE, response, "ok"))
  /\ ppc' = "returned"
  /\ UNCHANGED <<now, email, interval, intervalArg, psleeps, keep,
                 retryVars, sendVars, auxVars>>

\* lines 193-208 and 210-229: a 2xx response with a usable body, but mkdir or
\* writeFile rejects; the file-system error carries no status marker
PollSaveFails ==
  /\ AtRequest
  /\ \E response \in TokenResponses(Len(polls) + 1) :
       /\ ~ExpiryThrows(response)
       /\ LET tokenData == PollTokenData(response, now)
          IN /\ currentToken' = <<tokenData>>
             /\ currentEmail' = <<Trim(email)>>
             /\ polls' = Record(polls,
                  Met(TRUE, 200, Undefined, FALSE, TRUE, response, "fail"))
  /\ PollCaught(PollError(NoStatus, FALSE, Undefined, FALSE))
  /\ disk' \in FailedWrite(disk)
  /\ UNCHANGED <<now, email, intervalArg, keep, retryVars, sendVars,
                 auxVars>>

\* lines 193-204 and 210-229: a 2xx response whose body is not JSON
\* (response.json() rejects) or lacks expires_in (toISOString throws)
PollBadBody ==
  /\ AtRequest
  /\ \/ polls' = Record(polls,
          Met(TRUE, 200, Undefined, FALSE, FALSE, NoResponse, "none"))
     \/ \E response \in TokenResponses(Len(polls) + 1) :
          /\ ExpiryThrows(response)
          /\ polls' = Record(polls,
               Met(TRUE, 200, Undefined, FALSE, TRUE, response, "none"))
  /\ PollCaught(PollError(NoStatus, FALSE, Undefined, FALSE))
  /\ UNCHANGED <<sdkVars, email, intervalArg, keep, retryVars, sendVars,
                 auxVars>>

\* lines 392-394, 410-420 and 210-229: a non-2xx response; buildHttpError
\* marks the error with the status and the decoded JSON body
PollHttpError ==
  /\ AtRequest
  /\ \E status \in HttpErrorStatuses, data \in BOOLEAN, code \in ErrorCodes,
        m \in BOOLEAN :
       LET met == Met(FALSE, status, code, m, data, NoResponse, "none")
       IN /\ (code # Undefined) => data
          /\ ServerMay(met)
          /\ polls' = Record(polls, met)
          /\ PollCaught(PollError(status, data, code, m))
  /\ UNCHANGED <<sdkVars, email, intervalArg, keep, retryVars, sendVars,
                 auxVars>>

\* lines 400-408 and 210-229: fetch rejects (network failure, timeout)
PollNetworkError ==
  /\ AtRequest
  /\ polls' = Record(polls,
       Met(FALSE, NoStatus, Undefined, FALSE, FALSE, NoResponse, "none"))
  /\ PollCaught(PollError(NoStatus, FALSE, Undefined, FALSE))
  /\ UNCHANGED <<sdkVars, email, intervalArg, keep, retryVars, sendVars,
                 auxVars>>

\* lines 220-221 and 225-226: the timer fires after the interval slept
PollWake ==
  /\ ppc = "sleeping"
  /\ ppc' = "request"
  /\ now' = now + interval
  /\ UNCHANGED <<currentToken, currentEmail, disk, email, interval,
                 intervalArg, polls, psleeps, presult, keep, retryVars,
                 sendVars, auxVars>>

PollNext ==
  \/ PollSuccess
  \/ PollSaveFails
  \/ PollBadBody
  \/ PollHttpError
  \/ PollNetworkError
  \/ PollWake

SpecPoll == PollInit /\ [][PollNext]_vars

PollDone == ppc \in {"returned", "thrown"}
Requests == Len(polls)

(***************************************************************************)
(* The same loop with only the last history entry kept: the endpoint may   *)
(* answer authorization_pending while it holds the device code, for ever   *)
(* when the interval is 0 (the timers then take no time).  The event loop  *)
(* runs every timer and every continuation, and every request ends (a      *)
(* response, a network error or the abort of fetchWithTimeout): the        *)
(* poller's next step is always taken eventually, which is weak fairness   *)
(* of PollNext.                                                            *)
(***************************************************************************)
PollLiveInit == PollStart /\ keep = "last"

SpecPollLive == PollLiveInit /\ [][PollNext]_vars /\ WF_vars(PollNext)

(***************************************************************************)
(* Claims about pollForToken, checked under SpecPoll.                      *)
(***************************************************************************)
IsPending(m) == ~m.ok /\ m.status = 400 /\ m.code = AuthorizationPending
IsSlowDown(m) == ~m.ok /\ m.status = 400 /\ m.code = SlowDown
\* the iteration went through: 2xx, a body with expires_in, file written
IsSuccess(m) == m.ok /\ m.json /\ m.body.expires_in # Undefined /\ m.save = "ok"
\* the interval in force when the k-th request was made
IntervalBefore(k) == IF k = 1 THEN intervalArg ELSE psleeps[k - 1]

\* C4: a 400 authorization_pending answer to the k-th request leaves the
\* call running (it sleeps, then is back at its token request), the k-th
\* sleep lasts the interval then in force, and there is one sleep per
\* answer; after N such answers and a success the call has returned the
\* token of request N+1 after N sleeps of the initial interval.
C4_PendingSleepsAndLoops ==
  /\ \A k \in 1 .. Requests :
       IsPending(polls[k]) =>
         /\ Len(psleeps) >= k
         /\ psleeps[k] = IntervalBefore(k)
         /\ (k = Requests) => /\ ppc \in {"sleeping", "request"}
                              /\ Len(psleeps) = k
                              /\ interval = psleeps[k]
  /\ ( /\ Requests >= 1
       /\ \A k \in 1 .. Requests - 1 : IsPending(polls[k])
       /\ IsSuccess(polls[Requests]) ) =>
       /\ ppc = "returned"
       /\ presult.kind = "token"
       /\ presult.token.access_token = polls[Requests].body.access_token
       /\ psleeps = [k \in 1 .. Requests - 1 |-> intervalArg]

C4_Witness ==
  /\ intervalArg = DEFAULT_INTERVAL_MS
  /\ Requests = 3
  /\ IsPending(polls[1]) /\ IsPending(polls[2]) /\ IsSuccess(polls[3])
  /\ ppc = "returned"
  /\ psleeps = <<5000, 5000>>

\* C5: a slow_down answer to the k-th request makes the k-th sleep last
\* floor(1.5 * the interval in force), 7500 for 5000; the interval variable
\* keeps the value of the last sleep, an authorization_pending answer
\* sleeps it unchanged, and no sleep is shorter than the one before it.
C5_SlowDownGrowsInterval ==
  /\ \A k \in 1 .. Requests :
       IsSlowDown(polls[k]) =>
         /\ Len(psleeps) >= k
         /\ 2 * psleeps[k] <= 3 * IntervalBefore(k)
         /\ 3 * IntervalBefore(k) < 2 * psleeps[k] + 2
         /\ (IntervalBefore(k) = 5000) => psleeps[k] = 7500
  /\ \A k \in 1 .. Len(psleeps) :
       /\ psleeps[k] >= IntervalBefore(k)
       /\ IsPending(polls[k]) => psleeps[k] = IntervalBefore(k)
  /\ interval = IntervalBefore(Len(psleeps) + 1)

C5_Witness ==
  /\ intervalArg = DEFAULT_INTERVAL_MS
  /\ Requests = 3
  /\ IsSlowDown(polls[1]) /\ IsPending(polls[2]) /\ IsSlowDown(polls[3])
  /\ psleeps = <<7500, 7500, 11250>>
  /\ interval = 11250

\* "trimmed" is "text" without its leading and trailing white space
IsTrimOf(trimmed, text) ==
  /\ trimmed # << >> =>
       ~IsSpace(trimmed[1]) /\ ~IsSpace(trimmed[Len(trimmed)])
  /\ \E i \in 0 .. Len(text) :
       /\ i + Len(trimmed) <= Len(text)
       /\ SubSeq(text, i + 1, i + Len(trimmed)) = trimmed
       /\ \A n \in 1 .. i : IsSpace(text[n])
       /\ \A n \in i + Len(trimmed) + 1 .. Len(text) : IsSpace(text[n])

\* the envelope is on disk with the token of the response and of the result
PersistedAsReturned ==
  /\ disk.state = "file"
  /\ Envelope(disk).access_token = polls[Requests].body.access_token
  /\ Envelope(disk).access_token = presult.token.access_token
  /\ Envelope(disk).type = "qwen"

\* C6 as stated: when pollForToken has returned, the envelope is on disk
\* with the response's access token and its email field equals the email
\* argument exactly as passed.
C6_EmailAsPassed ==
  (ppc = "returned") => (PersistedAsReturned /\ Envelope(disk).email = email)

\* C6, amended: when pollForToken has returned, the envelope is on disk
\* with the response's access token, and its email field is the email
\* argument with leading and trailing white space removed.
C6_EmailTrimmed ==
  (ppc = "returned") =>
    (PersistedAsReturned /\ IsTrimOf(Envelope(disk).email, email))

C6_Witness ==
  /\ ppc = "returned"
  /\ email = <<" ", "a">>
  /\ disk = File(StorageData(presult.token, <<"a">>, now, disk))
  /\ Truthy(presult.token.access_token)

\* C7: a failed iteration that is not a 400 authorization_pending or
\* slow_down (no response, another status, another or no error code, an
\* unusable 2xx body, a failed write) is the last one: pollForToken has
\* thrown, with no sleep after it and no further request, and withRetry
\* took no part; the body-less 400 mentioning user_code throws the
\* malformed-session error.
C7_OtherFailuresAreFatal ==
  \A k \in 1 .. Requests :
    (~IsSuccess(polls[k]) /\ ~IsPending(polls[k]) /\ ~IsSlowDown(polls[k])) =>
      /\ k = Requests
      /\ ppc = "thrown"
      /\ presult.kind = "error"
      /\ Len(psleeps) = k - 1
      /\ rpc = "idle" /\ outcomes = << >>
      /\ (polls[k].status = 400 /\ ~polls[k].json /\ polls[k].user_code)
           <=> presult.message = "user_code"

C7_Witness ==
  /\ Requests = 2
  /\ IsPending(polls[1])
  /\ polls[2].status = 500
  /\ ppc = "thrown"
  /\ psleeps = <<intervalArg>>

\* C8 as stated: pollForToken returns a token, sets the current token and
\* writes an envelope only for a response in which access_token is present;
\* a 2xx response without access_token leaves no stored or returned token.
C8_SuccessNeedsAccessToken ==
  /\ (ppc = "returned") => Truthy(presult.token.access_token)
  /\ (currentToken # << >>) => Truthy(currentToken[1].access_token)
  /\ (disk.state = "file") => Truthy(Envelope(disk).access_token)

(***************************************************************************)
(* A claim about the unbounded loop, checked under SpecPollLive.           *)
(***************************************************************************)
\* the endpoint answers the request at hand with authorization_pending
PendingAnswer ==
  /\ PollHttpError
  /\ IsPending(polls'[Len(polls')])

\* C9: pollForToken has ended only if its last request met a success (it
\* returned) or a failure other than authorization_pending and slow_down
\* (it threw); at every token request made while the endpoint holds the
\* device code an authorization_pending answer is possible whatever came
\* before (the poller has no attempt cap and no deadline of its own), every
\* sleep leads to another request, and the call either ends or sleeps again
\* and again: it ends as soon as the endpoint stops answering
\* pending/slow_down.
C9_PollsUntilTerminal ==
  /\ [](PollDone =>
          /\ Requests >= 1
          /\ ~KeepsPending(polls[Requests])
          /\ (ppc = "returned") <=> IsSuccess(polls[Requests]))
  /\ []((ppc = "sleeping") => KeepsPending(polls[Requests]))
  /\ []((ppc = "request" /\ WithinHorizon) => ENABLED PendingAnswer)
  /\ (ppc = "sleeping") ~> (ppc = "request")
  /\ (<>PollDone) \/ ([]<>(ppc = "sleeping"))

\* the poller has slept, woken and is polling again after at least one
\* slow_down, and is still not done
C9_Witness ==
  /\ keep = "last"
  /\ ppc = "request"
  /\ Requests = 1
  /\ IsPending(polls[1])
  /\ interval > intervalArg

(***************************************************************************)
(* sendRequest, lines 263-298, with loadTokenFromStorage (331-354) and     *)
(* refreshToken (235-260), against an arbitrary token endpoint, an         *)
(* arbitrary chat endpoint and an arbitrary file system.  Spec runs one    *)
(* call on an SDK instance in any state an earlier session can have left.  *)
(* The call begins at instant 0: the code only compares Date.now() with   *)
(* the token's expiry_date and stamps what it builds, so the expiry dates  *)
(* of the start tokens are chosen around that instant; within the call the *)
(* clock advances by the sleeps of withRetry (Wake).                       *)
(***************************************************************************)
\* the tokens an earlier pollForToken, refreshToken or load can have left.
\* Only buildBaseUrl reads resource_url, whatever the other fields hold:
\* the expired tokens carry a blank one, the others one that ends in a
\* slash
StartTokens ==
  {t \in [ access_token : {50},
           refresh_token : {Undefined, EmptyString, 51},
           token_type : {"Bearer"},
           resource_url : {Blank, Slashed(2)},
           expiry_date : {0, 1500} ] :
     t.resource_url = Blank <=> t.expiry_date = 0}
StartEmails == {<< <<"a">> >>}

\* How an attempt can fail:
\*   "http": a non-2xx status; "network": fetch rejects; "body": a 2xx
\*   answer whose body is unusable (not JSON, or lacking expires_in);
\*   "save": a usable 2xx token response, then mkdir or writeFile rejects
\* The chat endpoint fails in the first three ways (its body is unusable
\* when it is not JSON).
Fault(kind, status) == [kind |-> kind, status |-> status]
RefreshFaults ==
  {Fault("http", st) : st \in {400, 401, 500}}
    \cup {Fault("network", NoStatus), Fault("body", 200), Fault("save", 200)}
ChatFaults ==
  {Fault("http", st) : st \in {400, 401, 403, 500}}
    \cup {Fault("network", NoStatus), Fault("body", 200)}

Init ==
  /\ RetryIdle
  /\ PollIdle
  /\ SendIdle
  /\ HttpIdle
  /\ StoreIdle
  /\ FlowIdle
  /\ PoolIdle
  /\ now = 0
  /\ \E token \in StartTokens, mail \in StartEmails :
       LET env == StorageData(token, RefreshEmail(mail), 0, NoFile)
       IN \/ /\ currentToken = <<token>>
             /\ currentEmail = mail
             /\ disk \in {NoFile, File(env)}
          \/ /\ currentToken = << >>
             /\ currentEmail = << >>
             /\ disk \in {NoFile, CorruptFile, File(env)}

\* a history entry: an HTTP request of call c and the status it met
\* (NoStatus: fetch rejected, or not answered yet); "expired" tells whether
\* a downstream request left with a token whose expiry had passed, "write"
\* how the write of the token went that followed a refresh response
\* ("none": no write).  A refresh request is entered when it is answered.
Sent(c, kind, refreshToken, status) ==
  [ call |-> c, kind |-> kind, refresh_token |-> refreshToken,
    bearer |-> Undefined, host |-> Undefined, expired |-> FALSE,
    write |-> "none", status |-> status, answered |-> TRUE ]

\* lines 276-283: the downstream request call c sends at time t with "cur"
\* the current token: the URL and the Authorization header are built from
\* it, then fetch is called; the entry is made when the request leaves
ChatSent(c, cur, t) ==
  [ call |-> c, kind |-> "chat", refresh_token |-> Undefined,
    bearer |-> Bearer(cur), host |-> Host(cur),
    expired |-> IsTokenExpired(cur[1], t),
    write |-> "none", status |-> NoStatus, answered |-> FALSE ]

\* the history after the downstream request of call c in flight has met
\* "status"
Answered(w, c, status) ==
  LET k == CHOOSE i \in 1 .. Len(w) :
             w[i].call = c /\ w[i].kind = "chat" /\ ~w[i].answered
  IN [w EXCEPT ![k] = [@ EXCEPT !.status = status, !.answered = TRUE]]

\* lines 271-283: with "token" current, go through refreshToken or straight
\* to the dispatch; either way a withRetry loop starts at attempt 1 and its
\* first request leaves
Enter(c, token) ==
  /\ spc' = [spc EXCEPT ![c] =
       IF NeedsRefresh(token, now) THEN "refresh" ELSE "dispatch"]
  /\ wire' = IF NeedsRefresh(token, now) THEN wire
             ELSE Append(wire, ChatSent(c, <<token>>, now))
  /\ sfault' = [sfault EXCEPT ![c] = NoFault]
  /\ sarg' = [sarg EXCEPT ![c] =
       IF NeedsRefresh(token, now) THEN token.refresh_token ELSE Undefined]
  /\ sattempt' = [sattempt EXCEPT ![c] = 1]
  /\ slast' = [slast EXCEPT ![c] = Null]

\* lines 263-275: sendRequest with a token in memory
SendBegin(c) ==
  /\ spc[c] = "idle"
  /\ currentToken # << >>
  /\ sstart' = [sstart EXCEPT ![c] =
       [token |-> currentToken, expired |-> now >= currentToken[1].expiry_date,
        load |-> "none", file |-> disk.state]]
  /\ Enter(c, currentToken[1])
  /\ UNCHANGED <<sdkVars, sresult, sadopted, ssleeps>>
  /\ UNCHANGED <<retryVars, pollVars, auxVars>>

\* lines 263-275 and 331-354: sendRequest with no token in memory, the
\* file being there and read
SendBeginLoaded(c) ==
  /\ spc[c] = "idle"
  /\ currentToken = << >>
  /\ \E readable \in BOOLEAN :
       /\ Load(disk, readable) # << >>
       /\ currentToken' = Load(disk, readable)
       /\ Enter(c, Load(disk, readable)[1])
  /\ currentEmail' = <<Envelope(disk).email>>
  /\ sstart' = [sstart EXCEPT ![c] =
       [token |-> << >>, expired |-> now >= Envelope(disk).expired,
        load |-> "hit", file |-> disk.state]]
  /\ UNCHANGED <<disk, now, sresult, sadopted, ssleeps>>
  /\ UNCHANGED <<retryVars, pollVars, auxVars>>

\* new Error('未找到有效的令牌，请先进行认证')
NoCredentials == [kind |-> "error", status |-> NoStatus, by |-> -1]

\* lines 263-268 and 331-354: sendRequest with no token in memory, and the
\* file missing, unreadable or not JSON
SendBeginNoToken(c) ==
  /\ spc[c] = "idle"
  /\ currentToken = << >>
  /\ \E readable \in BOOLEAN : Load(disk, readable) = << >>
  /\ spc' = [spc EXCEPT ![c] = "thrown"]
  /\ sresult' = [sresult EXCEPT ![c] = NoCredentials]
  /\ sstart' = [sstart EXCEPT ![c] =
       [token |-> << >>, expired |-> FALSE, load |-> "miss",
        file |-> disk.state]]
  /\ UNCHANGED <<sdkVars, sattempt, slast, sarg, sadopted, sfault, wire,
                 ssleeps>>
  /\ UNCHANGED <<retryVars, pollVars, auxVars>>

\* withRetry's catch block (lines 32-41) in the loop of call c, which
\* sleeps in state "asleep"
Caught(c, error, asleep) ==
  LET todo == OnFailure(error, sattempt[c], MAX_RETRIES)
  IN /\ slast' = [slast EXCEPT ![c] = error]
     /\ spc' = [spc EXCEPT ![c] =
          CASE todo = "throw" -> "thrown"
            [] todo = "sleep" -> asleep
            [] OTHER -> spc[c]]
     /\ sresult' = [sresult EXCEPT ![c] =
          IF todo = "throw" THEN error ELSE sresult[c]]
     /\ sattempt' = [sattempt EXCEPT ![c] =
          IF todo = "next" THEN sattempt[c] + 1 ELSE sattempt[c]]
     /\ ssleeps' = IF todo = "sleep"
                   THEN Append(ssleeps,
                          [call |-> c, loop |-> spc[c],
                           ms |-> Backoff(RETRY_DELAY_MS, sattempt[c])])
                   ELSE ssleeps

\* line 39: the timer of call c fires, delay * attempt milliseconds after
\* it was set, and the next attempt begins: in the dispatch loop its
\* request leaves (lines 276-283)
Wake(c, asleep, loop) ==
  /\ spc[c] = asleep
  /\ spc' = [spc EXCEPT ![c] = loop]
  /\ sattempt' = [sattempt EXCEPT ![c] = sattempt[c] + 1]
  /\ now' = now + Backoff(RETRY_DELAY_MS, sattempt[c])
  /\ wire' = IF loop = "dispatch"
             THEN Append(wire, ChatSent(c, currentToken, now'))
             ELSE wire
  /\ UNCHANGED <<currentToken, currentEmail, disk>>
  /\ UNCHANGED <<slast, sarg, sresult, sstart, sadopted, sfault, ssleeps>>
  /\ UNCHANGED <<retryVars, pollVars, auxVars>>

\* lines 29 and 43: the loop test of call c fails
Exhaust(c, loop) ==
  /\ spc[c] = loop
  /\ sattempt[c] > MAX_RETRIES
  /\ spc' = [spc EXCEPT ![c] = "thrown"]
  /\ sresult' = [sresult EXCEPT ![c] = Exhausted(slast[c])]
  /\ UNCHANGED <<sdkVars, sattempt, slast, sarg, sstart, sadopted, sfault, wire,
                 ssleeps>>
  /\ UNCHANGED <<retryVars, pollVars, auxVars>>

\* the record of the failures of a call after the failure f, "was" being
\* the record before it
Faulted(was, f) ==
  [ kind |-> f.kind, status |-> f.status,
    changes |-> IF was.kind = "none"
                     \/ (was.kind = f.kind /\ was.status = f.status)
                THEN was.changes ELSE was.changes + 1 ]

\* the failures open to call c at this attempt: any of "faults", as long as
\* the failures of the call have changed at most MaxFaultChanges times
FaultNow(c, faults) ==
  {f \in faults : Faulted(sfault[c], f).changes <= MaxFaultChanges}

\* the token responses of the endpoint to the k-th refresh request of the
\* history of Spec: the full response, and the responses that differ
\* from it in one field
FullResponse(k) ==
  [ access_token |-> ServerAccess(k), refresh_token |-> ServerRefresh(k),
    token_type |-> "Bearer", resource_url |-> 1, expires_in |-> 3600 ]
RefreshResponses(k) ==
  {r \in TokenResponses(k) :
     Cardinality({f \in DOMAIN r : r[f] # FullResponse(k)[f]}) <= 1}

\* call c is at the fetch of its loop "loop"
\* how many refresh requests the token endpoint has answered
RefreshCount ==
  Cardinality({k \in 1 .. Len(wire) : wire[k].kind = "refresh"})

AtFetch(c, loop) == spc[c] = loop /\ sattempt[c] <= MAX_RETRIES

\* lines 236-259 and 276-283: a 2xx refresh response with a usable body,
\* written to disk; refreshToken returns, sendRequest enters its dispatch
\* loop and the first downstream request leaves
RefreshOk(c) ==
  /\ AtFetch(c, "refresh")
  /\ \E response \in RefreshResponses(RefreshCount + 1) :
       /\ ~ExpiryThrows(response)
       /\ LET tokenData == RefreshTokenData(response, sarg[c], now)
          IN /\ currentToken' = <<tokenData>>
             /\ disk' = WriteFile(disk,
                  StorageData(tokenData, RefreshEmail(currentEmail), now, disk))
             /\ sadopted' = [sadopted EXCEPT ![c] =
                  <<[token |-> tokenData, attempt |-> sattempt[c],
                     response |-> response]>>]
             /\ wire' = Append(Append(wire,
                  [Sent(c, "refresh", sarg[c], 200)
                     EXCEPT !.write = "resolved"]),
                  ChatSent(c, <<tokenData>>, now))
  /\ spc' = [spc EXCEPT ![c] = "dispatch"]
  /\ sattempt' = [sattempt EXCEPT ![c] = 1]
  /\ slast' = [slast EXCEPT ![c] = Null]
  /\ sfault' = [sfault EXCEPT ![c] =
       [NoFault EXCEPT !.changes = sfault[c].changes]]
  /\ UNCHANGED <<currentEmail, now, sarg, sresult, sstart, ssleeps>>
  /\ UNCHANGED <<retryVars, pollVars, auxVars>>

\* lines 236-257 and 32-41: a 2xx refresh response with a usable body, but
\* mkdir or writeFile rejects: the operation of withRetry fails
RefreshSaveFails(c) ==
  /\ AtFetch(c, "refresh")
  /\ \E f \in FaultNow(c, RefreshFaults) :
       /\ f.kind = "save"
       /\ sfault' = [sfault EXCEPT ![c] = Faulted(sfault[c], f)]
  /\ \E response \in RefreshResponses(RefreshCount + 1) :
       /\ ~ExpiryThrows(response)
       /\ currentToken' = <<RefreshTokenData(response, sarg[c], now)>>
  /\ wire' = Append(wire,
       [Sent(c, "refresh", sarg[c], 200) EXCEPT !.write = "rejected"])
  /\ disk' \in FailedWrite(disk)
  /\ Caught(c, Err(NoStatus, sattempt[c]), "refresh_sleep")
  /\ UNCHANGED <<currentEmail, now, sarg, sstart, sadopted>>
  /\ UNCHANGED <<retryVars, pollVars, auxVars>>

\* lines 236-253 and 32-41: a refresh request that fails before any token is
\* built: fetch rejects, the 2xx body is unusable, or the status is not
\* 2xx, which alone marks the error (buildHttpError)
RefreshFails(c) ==
  /\ AtFetch(c, "refresh")
  /\ \E f \in FaultNow(c, RefreshFaults) :
       /\ f.kind \in {"http", "network", "body"}
       /\ sfault' = [sfault EXCEPT ![c] = Faulted(sfault[c], f)]
       /\ wire' = Append(wire, Sent(c, "refresh", sarg[c], f.status))
       /\ Caught(c, Err(IF f.kind = "http" THEN f.status ELSE NoStatus,
                        sattempt[c]), "refresh_sleep")
  /\ UNCHANGED <<sdkVars, sarg, sstart, sadopted>>
  /\ UNCHANGED <<retryVars, pollVars, auxVars>>

RefreshWake(c) == Wake(c, "refresh_sleep", "refresh")
RefreshExhaustedMutProceed(c) ==
  /\ spc[c] = "refresh"
  /\ sattempt[c] > MAX_RETRIES
  /\ spc' = [spc EXCEPT ![c] = "dispatch"]
  /\ sattempt' = [sattempt EXCEPT ![c] = 1]
  /\ slast' = [slast EXCEPT ![c] = Null]
  /\ wire' = Append(wire, ChatSent(c, currentToken, now))
  /\ UNCHANGED <<sdkVars, sarg, sresult, sstart, sadopted, sfault, ssleeps>>
  /\ UNCHANGED <<retryVars, pollVars, auxVars>>
RefreshExhausted(c) == Exhaust(c, "refresh")

\* the value sendRequest resolves to: the body of attempt "by"
Completion(by) == Val(by)

\* lines 284-296: the chat endpoint answers the request in flight with a
\* 2xx status and a readable body
DispatchOk(c) ==
  /\ AtFetch(c, "dispatch")
  /\ wire' = Answered(wire, c, 200)
  /\ spc' = [spc EXCEPT ![c] = "returned"]
  /\ sresult' = [sresult EXCEPT ![c] = Completion(sattempt[c])]
  /\ UNCHANGED <<sdkVars, sattempt, slast, sarg, sstart, sadopted, sfault,
                 ssleeps>>
  /\ UNCHANGED <<retryVars, pollVars, auxVars>>

\* lines 284-296 and 32-41: the request in flight meets a non-2xx answer of
\* the chat endpoint, thrown as new Error(message), which carries no status
\* marker; or fetch rejects; or the body of a 2xx answer is not JSON and
\* response.json() rejects (line 296)
DispatchFails(c) ==
  /\ AtFetch(c, "dispatch")
  /\ \E f \in FaultNow(c, ChatFaults) :
       /\ sfault' = [sfault EXCEPT ![c] = Faulted(sfault[c], f)]
       /\ wire' = Answered(wire, c, f.status)
  /\ Caught(c, Err(NoStatus, sattempt[c]), "dispatch_sleep")
  /\ UNCHANGED <<sdkVars, sarg, sstart, sadopted>>
  /\ UNCHANGED <<retryVars, pollVars, auxVars>>

DispatchWakeMutRecheck(c) ==
  Wake(c, "dispatch_sleep",
       IF NeedsRefresh(currentToken[1], now) THEN "refresh" ELSE "dispatch")
DispatchWake(c) == Wake(c, "dispatch_sleep", "dispatch")
DispatchExhausted(c) == Exhaust(c, "dispatch")

SendStep(c) ==
  \/ SendBegin(c)
  \/ SendBeginLoaded(c)
  \/ SendBeginNoToken(c)
  \/ RefreshOk(c)
  \/ RefreshSaveFails(c)
  \/ RefreshFails(c)
  \/ RefreshWake(c)
  \/ RefreshExhausted(c)
  \/ DispatchOk(c)
  \/ DispatchFails(c)
  \/ DispatchWake(c)
  \/ DispatchExhausted(c)

\* Spec: the one call of the run is call 1
Next == SendStep(1)

Spec == Init /\ [][Next]_vars

(***************************************************************************)
(* Claims about sendRequest, checked under Spec.                           *)
(***************************************************************************)
\* the requests of call c, in the order sent
CallWire(c) == SelectSeq(wire, LAMBDA e : e.call = c)
\* call c began with a token in memory that had expired and holds a
\* non-empty refresh token
BeganExpiredRefreshable(c) ==
  /\ sstart[c].token # << >>
  /\ sstart[c].expired
  /\ sstart[c].token[1].refresh_token > 0
\* the refreshToken of call c returned from its first attempt
RefreshedAtFirstAttempt(c) ==
  sadopted[c] # << >> /\ sadopted[c][1].attempt = 1

\* C10: a call that began with an expired in-memory token holding a
\* non-empty refresh token sends a refresh request before any downstream
\* request; when that refresh returns from its first attempt it is the
\* call's only refresh request, and every downstream request of the call
\* carries the access token of the refreshed token after "Bearer ".
C10_RefreshThenDispatch ==
  \A c \in Calls :
    LET w == CallWire(c)
        chat == {k \in 1 .. Len(w) : w[k].kind = "chat"}
        refresh == {k \in 1 .. Len(w) : w[k].kind = "refresh"}
    IN BeganExpiredRefreshable(c) =>
         /\ (w # << >>) =>
              /\ w[1].kind = "refresh"
              /\ w[1].refresh_token = sstart[c].token[1].refresh_token
         /\ (spc[c] \in {"dispatch", "dispatch_sleep", "returned"}) =>
              sadopted[c] # << >>
         /\ RefreshedAtFirstAttempt(c) =>
              /\ refresh = {1}
              /\ \A k \in chat :
                   LET fresh == sadopted[c][1].token.access_token
                   IN w[k].bearer =
                        IF fresh = Undefined THEN EmptyString ELSE fresh

\* an expired token refreshed at the first attempt, then two downstream
\* requests (a failure, a success), both with the new access token
C10_Witness ==
  /\ BeganExpiredRefreshable(1)
  /\ RefreshedAtFirstAttempt(1)
  /\ spc[1] = "returned"
  /\ Len(wire) = 3
  /\ wire[2].kind = "chat" /\ wire[2].status = 500
  /\ wire[3].kind = "chat" /\ wire[3].status = 200
  /\ wire[2].bearer = ServerAccess(1) /\ wire[3].bearer = ServerAccess(1)
  /\ wire[3].bearer # sstart[1].token[1].access_token

\* the downstream requests of call c, as positions of CallWire(c)
ChatRequests(c) ==
  LET w == CallWire(c) IN {k \in 1 .. Len(w) : w[k].kind = "chat"}
AuthRejected == {401, 403, 400}

\* C11: a downstream response with status 401, 403 or 400 is fatal for
\* sendRequest: the call sends no further downstream request, does not
\* sleep for a retry, and throws an error that carries the status.
C11_AuthRejectedIsFatal ==
  \A c \in Calls :
    \A k \in ChatRequests(c) :
      CallWire(c)[k].status \in AuthRejected =>
        /\ \A j \in ChatRequests(c) : j <= k
        /\ spc[c] = "thrown"
        /\ sresult[c].status = CallWire(c)[k].status

\* C12: a sendRequest that begins with no token in memory loads the file;
\* when the file is missing or not JSON the load yields no token, and a
\* call whose load yields no token throws the no-valid-credentials error
\* having sent no refresh request and no downstream request.
C12_NoTokenNoRequest ==
  \A c \in Calls :
    /\ (spc[c] # "idle" /\ sstart[c].token = << >>
          /\ sstart[c].file \in {"absent", "corrupt"}) =>
         sstart[c].load = "miss"
    /\ (sstart[c].load = "miss") =>
         /\ spc[c] = "thrown"
         /\ sresult[c] = NoCredentials
         /\ CallWire(c) = << >>
         /\ currentToken = << >>
    /\ (sstart[c].load = "hit") => sstart[c].file = "file"

\* the call found a file that is not JSON and threw without a request
C12_Witness ==
  /\ spc[1] = "thrown"
  /\ sstart[1].load = "miss"
  /\ disk = CorruptFile
  /\ sresult[1] = NoCredentials
  /\ wire = << >>

\* the refresh requests of call c, as positions of CallWire(c)
RefreshRequests(c) ==
  LET w == CallWire(c) IN {k \in 1 .. Len(w) : w[k].kind = "refresh"}

\* C13: within one sendRequest call the expiry check and the refresh come
\* once, before the first downstream attempt: every refresh request of the
\* call precedes every downstream request of the call, and a call whose
\* token had not expired when it began sends no refresh request, also when
\* the token expires before a retried attempt.
C13_ExpiryCheckedOnce ==
  \A c \in Calls :
    LET refresh == RefreshRequests(c)
        chat == ChatRequests(c)
    IN /\ \A j \in refresh : \A k \in chat : j < k
       /\ (refresh # {}) => sstart[c].expired

\* a call that began with a token still valid and holding a refresh token;
\* its first attempt failed, the token expired during the sleep, and the
\* second attempt left with the expired token, no refresh in between
C13_Witness ==
  /\ spc[1] = "returned"
  /\ ~sstart[1].expired
  /\ currentToken[1].refresh_token > 0
  /\ Len(wire) = 2
  /\ wire[1].kind = "chat" /\ ~wire[1].expired /\ wire[1].status = 500
  /\ wire[2].kind = "chat" /\ wire[2].expired /\ wire[2].status = 200
  /\ wire[2].bearer = wire[1].bearer

\* call c began with a token in memory that had expired and holds no
\* refresh token (undefined or the empty string)
BeganExpiredUnrefreshable(c) ==
  /\ sstart[c].token # << >>
  /\ sstart[c].expired
  /\ ~(sstart[c].token[1].refresh_token > 0)

\* C14: a sendRequest that begins with an expired in-memory token holding no
\* refresh token sends no refresh request and does not fail before the
\* dispatch: it goes to the downstream request, and every downstream
\* request of the call carries the expired access token.
C14_ExpiredWithoutRefreshProceeds ==
  \A c \in Calls :
    BeganExpiredUnrefreshable(c) =>
      /\ RefreshRequests(c) = {}
      /\ spc[c] \in {"dispatch", "dispatch_sleep", "returned", "thrown"}
      /\ (spc[c] = "thrown") => ChatRequests(c) # {}
      /\ \A k \in ChatRequests(c) :
           /\ CallWire(c)[k].bearer = sstart[c].token[1].access_token
           /\ CallWire(c)[k].expired

\* the expired token went downstream and the call returned the answer
C14_Witness ==
  /\ BeganExpiredUnrefreshable(1)
  /\ sstart[1].token[1].refresh_token = EmptyString
  /\ spc[1] = "returned"
  /\ Len(wire) = 1
  /\ wire[1].kind = "chat" /\ wire[1].expired
  /\ wire[1].bearer = sstart[1].token[1].access_token

\* C16: the token a successful refreshToken(r) returns holds the refresh
\* token of the response when the response has one, and r when the response
\* has none (an empty string counts as none); its other fields are those of
\* the response, and it replaces the in-memory current token.
C16_RefreshTokenRotation ==
  \A c \in Calls :
    sadopted[c] # << >> =>
      LET a == sadopted[c][1]
      IN /\ (a.response.refresh_token > 0) =>
              a.token.refresh_token = a.response.refresh_token
         /\ (a.response.refresh_token \in {Undefined, EmptyString}) =>
              a.token.refresh_token = sarg[c]
         /\ a.token.access_token = a.response.access_token
         /\ a.token.resource_url = a.response.resource_url
         /\ currentToken = <<a.token>>
         /\ currentToken # sstart[c].token

\* the response omitted the refresh token: the refreshed record keeps the
\* old one, with the new access token
C16_Witness ==
  /\ sadopted[1] # << >>
  /\ sadopted[1][1].response.refresh_token = Undefined
  /\ sadopted[1][1].response.access_token = ServerAccess(1)
  /\ sstart[1].token # << >>
  /\ currentToken[1].refresh_token = sstart[1].token[1].refresh_token
  /\ currentToken[1].access_token = ServerAccess(1)
  /\ spc[1] = "returned"

\* the response rotated the refresh token: the record holds the new one
C16_WitnessRotated ==
  /\ sadopted[1] # << >>
  /\ sadopted[1][1].response.refresh_token = ServerRefresh(1)
  /\ currentToken[1].refresh_token = ServerRefresh(1)
  /\ currentToken[1].refresh_token # sarg[1]

(***************************************************************************)
(* SpecHttp: one HTTP call of the SDK.  postForm (device-code request,    *)
(* poll iteration, refresh) and sendRequest (dispatch) go through          *)
(* fetchWithTimeout and then read the body of the response.                *)
(***************************************************************************)
HttpCallers == {"device", "poll", "refresh", "dispatch"}

HttpInit ==
  /\ RetryIdle /\ SdkIdle /\ PollIdle /\ SendIdle /\ StoreIdle /\ FlowIdle
  /\ PoolIdle
  /\ hcaller \in HttpCallers
  /\ hpc = "idle"
  /\ htimer = "unset"
  /\ helapsed = 0
  /\ hbody = NoBody

\* lines 401-404: the timer is set, fetch is called with the signal
HttpBegin ==
  /\ hpc = "idle"
  /\ hpc' = "connecting"
  /\ htimer' = "armed"
  /\ UNCHANGED <<hcaller, helapsed, hbody>>
  /\ UNCHANGED <<retryVars, sdkVars, pollVars, sendVars, storeVars, flowVars,
                 poolVars>>

\* lines 285-290: with options.stream and a 2xx answer sendRequest returns
\* response.body unread; every other answer is read by the SDK
ReadBySdk(caller, body) == ~(caller = "dispatch" /\ body.stream /\ body.ok)

\* lines 404-407: fetch resolves when the headers of the response have
\* arrived; the finally block clears the timer
HttpHeaders ==
  /\ hpc = "connecting"
  /\ htimer = "armed"
  /\ \E ok \in BOOLEAN, parts \in 0 .. MaxParts,
        stream \in IF hcaller = "dispatch" THEN BOOLEAN ELSE {FALSE} :
       LET body == [ok |-> ok, stream |-> stream, parts |-> parts,
                    read |-> 0]
       IN /\ hbody' = body
          /\ hpc' = IF ReadBySdk(hcaller, body) THEN "body" ELSE "done"
  /\ htimer' = "cleared"
  /\ UNCHANGED <<hcaller, helapsed>>
  /\ UNCHANGED <<retryVars, sdkVars, pollVars, sendVars, storeVars, flowVars,
                 poolVars>>

\* lines 404-407: fetch rejects (the connection fails); the finally block
\* clears the timer
HttpReject ==
  /\ hpc = "connecting"
  /\ htimer = "armed"
  /\ hpc' = "failed"
  /\ htimer' = "cleared"
  /\ UNCHANGED <<hcaller, helapsed, hbody>>
  /\ UNCHANGED <<retryVars, sdkVars, pollVars, sendVars, storeVars, flowVars,
                 poolVars>>

\* line 402: the timer fires after requestTimeoutMs and aborts the fetch,
\* which rejects
HttpAbort ==
  /\ hpc = "connecting"
  /\ htimer = "armed"
  /\ helapsed >= REQUEST_TIMEOUT_MS
  /\ hpc' = "aborted"
  /\ htimer' = "fired"
  /\ UNCHANGED <<hcaller, helapsed, hbody>>
  /\ UNCHANGED <<retryVars, sdkVars, pollVars, sendVars, storeVars, flowVars,
                 poolVars>>

\* lines 396, 296 and 422-430: response.json() or response.text() waits for
\* the body; a part of it arrives
HttpBodyPart ==
  /\ hpc = "body"
  /\ hbody.read < hbody.parts
  /\ hbody' = [hbody EXCEPT !.read = hbody.read + 1]
  /\ UNCHANGED <<hcaller, hpc, htimer, helapsed>>
  /\ UNCHANGED <<retryVars, sdkVars, pollVars, sendVars, storeVars, flowVars,
                 poolVars>>

\* the body has arrived whole: the read resolves
HttpBodyEnd ==
  /\ hpc = "body"
  /\ hbody.read = hbody.parts
  /\ hpc' = "done"
  /\ UNCHANGED <<hcaller, htimer, helapsed, hbody>>
  /\ UNCHANGED <<retryVars, sdkVars, pollVars, sendVars, storeVars, flowVars,
                 poolVars>>

\* half a timeout passes with the call outstanding; an armed timer that is
\* due fires before more time passes
HttpElapse ==
  /\ hpc \in {"connecting", "body"}
  /\ helapsed < MaxStall * (REQUEST_TIMEOUT_MS \div 2)
  /\ ~(htimer = "armed" /\ helapsed >= REQUEST_TIMEOUT_MS)
  /\ helapsed' = helapsed + REQUEST_TIMEOUT_MS \div 2
  /\ UNCHANGED <<hcaller, hpc, htimer, hbody>>
  /\ UNCHANGED <<retryVars, sdkVars, pollVars, sendVars, storeVars, flowVars,
                 poolVars>>

HttpNext ==
  \/ HttpBegin
  \/ HttpHeaders
  \/ HttpReject
  \/ HttpAbort
  \/ HttpBodyPart
  \/ HttpBodyEnd
  \/ HttpElapse

SpecHttp == HttpInit /\ [][HttpNext]_vars

\* C15: every HTTP call of the SDK is bounded by the fixed timeout over the
\* whole request: while the call is outstanding, the body not yet read to
\* its end, the abort timer is armed, and the call is never outstanding
\* for longer than the timeout.
C15_TimeoutBoundsWholeRequest ==
  /\ (hpc \in {"connecting", "body"}) => htimer = "armed"
  /\ (hpc \in {"connecting", "body"}) => helapsed <= REQUEST_TIMEOUT_MS

(***************************************************************************)
(* SpecStore: the calls a program makes on one SDK instance, one after the *)
(* other, each awaited: loadTokenFromStorage, saveTokenToStorage,          *)
(* pollForToken, updateTokenEmail and refreshToken, with a file system     *)
(* that can reject a read or a write.  A call is one step, taken to the    *)
(* state it leaves when its promise settles.                               *)
(***************************************************************************)
\* the records given to saveTokenToStorage
StoreRecords ==
  [ access_token : {Undefined, 7},
    refresh_token : {Undefined, EmptyString, 8},
    token_type : {"Bearer"},
    resource_url : {Undefined},
    expiry_date : {3600000} ]
\* the email arguments of saveTokenToStorage
SaveMails == {<<"a">>}
\* the email arguments of updateTokenEmail
StoreMails == {<< >>, <<"a", "a">>}
\* the email arguments of pollForToken
PollMails == {<< >>, <<" ", "a">>}
\* the token responses of the endpoint, to the k-th call
StoreResponses(k) ==
  {r \in TokenResponses(k) :
     r.resource_url = Undefined /\ r.expires_in \in {Undefined, 3600}}

StoreInit ==
  /\ RetryIdle /\ PollIdle /\ SendIdle /\ HttpIdle /\ FlowIdle
  /\ PoolIdle
  /\ currentToken = << >>
  /\ currentEmail = << >>
  /\ disk \in {NoFile, CorruptFile, File(OldEnvelope)}
  /\ now = 0
  /\ op = NoOp
  /\ nops = 0
  /\ saved = << >>

\* lines 36-39: the time withRetry has slept before its attempt a
RECURSIVE Slept(_)
Slept(a) ==
  IF a <= 1 THEN 0 ELSE Slept(a - 1) + Backoff(RETRY_DELAY_MS, a - 1)

\* a call settles "took" milliseconds after it began: what it was, what it
\* found, what it gave; the next call begins a second later
DoneAfter(took, name, args, result, value) ==
  /\ nops < MaxOps
  /\ op' = [ name |-> name, prev |-> op.name, args |-> args,
             result |-> result, value |-> value,
             before |-> [token |-> currentToken, email |-> currentEmail,
                         disk |-> disk] ]
  /\ nops' = nops + 1
  /\ now' = now + took + 1000
  /\ UNCHANGED <<retryVars, pollVars, sendVars, httpVars, flowVars, poolVars>>

\* a call that settles at once
Done(name, args, result, value) == DoneAfter(0, name, args, result, value)

\* lines 301-319: saveTokenToStorage(token, mail), called at time t, resolves
SaveOkAt(token, mail, t) ==
  /\ disk' = WriteFile(disk, StorageData(token, mail, t, disk))
  /\ saved' = <<[token |-> token, mail |-> mail, at |-> t]>>
SaveOk(token, mail) == SaveOkAt(token, mail, now)
\* lines 313-318: mkdir or writeFile rejects
SaveRejects ==
  /\ disk' \in FailedWrite(disk)
  /\ saved' = IF disk' = disk THEN saved ELSE << >>

\* lines 331-354: loadTokenFromStorage()
StoreLoad ==
  /\ \E readable \in BOOLEAN :
       /\ currentToken' = LoadedCurrent(disk, readable, currentToken)
       /\ currentEmail' = LoadedEmail(disk, readable, currentEmail)
       /\ Done("load", [readable |-> readable], "returned",
               Load(disk, readable))
  /\ UNCHANGED <<disk, saved>>

\* lines 301-319: saveTokenToStorage(token, mail), the write resolving
StoreSaveOk ==
  /\ \E token \in StoreRecords, mail \in SaveMails :
       /\ SaveOk(token, mail)
       /\ Done("save", [token |-> token, mail |-> mail], "returned", << >>)
  /\ UNCHANGED <<currentToken, currentEmail>>

\* lines 301-319: saveTokenToStorage(token, mail), the write rejecting
StoreSaveFails ==
  /\ \E token \in StoreRecords, mail \in SaveMails :
       Done("save", [token |-> token, mail |-> mail], "thrown", << >>)
  /\ SaveRejects
  /\ UNCHANGED <<currentToken, currentEmail>>

\* lines 183-209: pollForToken(..., mail) gets a token response and the
\* write resolves
StorePollOk ==
  /\ \E mail \in PollMails, response \in StoreResponses(nops + 1) :
       /\ ~ExpiryThrows(response)
       /\ LET tokenData == PollTokenData(response, now)
          IN /\ currentToken' = <<tokenData>>
             /\ currentEmail' = <<Trim(mail)>>
             /\ SaveOk(tokenData, Trim(mail))
             /\ Done("poll", [mail |-> mail], "returned", <<tokenData>>)

\* lines 183-229: pollForToken gets a token response and the write rejects:
\* the catch block throws
StorePollSaveFails ==
  /\ \E mail \in PollMails, response \in StoreResponses(nops + 1) :
       /\ ~ExpiryThrows(response)
       /\ currentToken' = <<PollTokenData(response, now)>>
       /\ currentEmail' = <<Trim(mail)>>
       /\ Done("poll", [mail |-> mail], "thrown", << >>)
  /\ SaveRejects

\* lines 183-229: pollForToken ends on an answer that is no token response
StorePollFails ==
  /\ \E mail \in PollMails : Done("poll", [mail |-> mail], "thrown", << >>)
  /\ UNCHANGED <<currentToken, currentEmail, disk, saved>>

\* lines 322-325: updateTokenEmail(mail) with no token in memory returns
StoreUpdateNoToken ==
  /\ currentToken = << >>
  /\ \E mail \in StoreMails :
       Done("update", [mail |-> mail], "returned", << >>)
  /\ UNCHANGED <<currentToken, currentEmail, disk, saved>>

\* lines 322-328: updateTokenEmail(mail), the write resolving
StoreUpdateOk ==
  /\ currentToken # << >>
  /\ \E mail \in StoreMails :
       /\ currentEmail' = <<mail>>
       /\ SaveOk(currentToken[1], mail)
       /\ Done("update", [mail |-> mail], "returned", << >>)
  /\ UNCHANGED currentToken

\* lines 322-328: updateTokenEmail(mail), the write rejecting
StoreUpdateSaveFails ==
  /\ currentToken # << >>
  /\ \E mail \in StoreMails :
       /\ currentEmail' = <<mail>>
       /\ Done("update", [mail |-> mail], "thrown", << >>)
  /\ SaveRejects
  /\ UNCHANGED currentToken

\* the refresh tokens refreshToken is called with: the one of the token in
\* memory, or one the caller holds
RefreshArgs ==
  {51} \cup (IF currentToken # << >> /\ currentToken[1].refresh_token > 0
             THEN {currentToken[1].refresh_token} ELSE {})

\* the attempts of withRetry at which the refreshToken calls of SpecStore
\* fail (the first, the second, the last), at which they succeed (the first,
\* the second) and at which a failing one gets its last token response (the
\* first, the last)
StoreAttempts == {1, 2, MAX_RETRIES}
SuccessAttempts == {1, 2}
ResponseAttempts == {1, MAX_RETRIES}

\* lines 235-260 and 29-43: refreshToken(r) gets a token response and the
\* write resolves, at attempt a, the attempts before it having failed and
\* withRetry having slept after each
StoreRefreshOk ==
  /\ \E r \in RefreshArgs, response \in StoreResponses(nops + 1),
        a \in SuccessAttempts :
       /\ ~ExpiryThrows(response)
       /\ LET tokenData == RefreshTokenData(response, r, now + Slept(a))
          IN /\ currentToken' = <<tokenData>>
             /\ SaveOkAt(tokenData, RefreshEmail(currentEmail),
                         now + Slept(a))
             /\ DoneAfter(Slept(a), "refresh",
                   [refresh_token |-> r, attempts |-> a], "returned",
                   <<tokenData>>)
  /\ UNCHANGED currentEmail

\* how a refreshToken call can fail: at attempt a with a status that
\* withRetry rethrows, or at the last attempt
RefreshEnds == {e \in [attempts : StoreAttempts, fatal : BOOLEAN] :
                  ~e.fatal => e.attempts = MAX_RETRIES}

\* lines 235-260 and 29-43: refreshToken(r) fails, and attempt j was the
\* last of its attempts to get a token response: it set the current token
\* and its write rejected
StoreRefreshSaveFails ==
  /\ \E r \in RefreshArgs, response \in StoreResponses(nops + 1),
        e \in RefreshEnds, j \in ResponseAttempts :
       /\ ~ExpiryThrows(response)
       /\ IF e.fatal THEN j < e.attempts ELSE j <= e.attempts
       /\ currentToken' = <<RefreshTokenData(response, r, now + Slept(j))>>
       /\ DoneAfter(Slept(e.attempts), "refresh",
             [refresh_token |-> r, attempts |-> e.attempts], "thrown", << >>)
  /\ SaveRejects
  /\ UNCHANGED currentEmail

\* lines 235-260 and 29-43: refreshToken(r) fails, none of its attempts
\* having got a token response
StoreRefreshFails ==
  /\ \E r \in RefreshArgs, e \in RefreshEnds :
       DoneAfter(Slept(e.attempts), "refresh",
         [refresh_token |-> r, attempts |-> e.attempts], "thrown", << >>)
  /\ UNCHANGED <<currentToken, currentEmail, disk, saved>>

StoreNext ==
  \/ StoreLoad
  \/ StoreSaveOk
  \/ StoreSaveFails
  \/ StorePollOk
  \/ StorePollSaveFails
  \/ StorePollFails
  \/ StoreUpdateNoToken
  \/ StoreUpdateOk
  \/ StoreUpdateSaveFails
  \/ StoreRefreshOk
  \/ StoreRefreshSaveFails
  \/ StoreRefreshFails

SpecStore == StoreInit /\ [][StoreNext]_vars

(***************************************************************************)
(* Claims about the token store, checked under SpecStore.                  *)
(***************************************************************************)
\* the last call was a refreshToken that returned a token
RefreshReturned == op.name = "refresh" /\ op.result = "returned"

\* C17 as stated: a refresh never replaces a known email in the envelope
\* with the sentinel: when the file held an email before a successful
\* refreshToken, the envelope the refresh writes does not hold "unknown".
C17_RefreshKeepsKnownEmail ==
  (/\ RefreshReturned
   /\ op.before.disk.state = "file"
   /\ Envelope(op.before.disk).email \notin {<< >>, UnknownEmail})
    => Envelope(disk).email # UnknownEmail

\* C17, amended: a successful refreshToken writes the envelope with the
\* email the SDK instance holds in memory (set by the last poll,
\* updateTokenEmail or successful load), and with the sentinel "unknown"
\* when the instance holds none or holds the empty string; the email in
\* memory is left as it was.
C17_RefreshPersistsHeldEmail ==
  RefreshReturned =>
    /\ disk.state = "file"
    /\ Envelope(disk).email =
         IF op.before.email # << >> /\ op.before.email[1] # << >>
         THEN op.before.email[1] ELSE UnknownEmail
    /\ currentEmail = op.before.email
    /\ Envelope(disk).access_token = op.value[1].access_token

\* a poll set the email "a"; the refresh after it wrote "a", with the
\* refreshed token
C17_Witness ==
  /\ RefreshReturned
  /\ op.prev = "poll"
  /\ op.before.email = << <<"a">> >>
  /\ Envelope(disk).email = <<"a">>
  /\ Envelope(disk).access_token = ServerAccess(2)
  /\ currentToken # op.before.token

\* the last call was a loadTokenFromStorage
LoadCalled == op.name = "load"

\* C18: a loadTokenFromStorage that reads the file as a saveTokenToStorage
\* wrote it yields a token with the access_token, the refresh_token (absent
\* when it was absent, empty when it was empty) and the expiry of the
\* record that was saved.
C18_SaveLoadRoundTrip ==
  (LoadCalled /\ saved # << >> /\ op.args.readable) =>
    /\ op.value # << >>
    /\ op.value[1].access_token = saved[1].token.access_token
    /\ op.value[1].refresh_token = saved[1].token.refresh_token
    /\ op.value[1].expiry_date = saved[1].token.expiry_date
    /\ currentToken = op.value

\* saveTokenToStorage(record, "a") with a record that has an access token
\* and no refresh token, then a load that returns such a token
C18_Witness ==
  /\ LoadCalled
  /\ op.prev = "save"
  /\ saved # << >>
  /\ saved[1].token.refresh_token = Undefined
  /\ saved[1].token.access_token = 7
  /\ op.value # << >>
  /\ op.value[1].refresh_token = Undefined
  /\ op.value[1].access_token = 7
  /\ op.before.token = << >>

\* C19: loadTokenFromStorage never raises; when the file is missing, cannot
\* be read or is not JSON it returns null, and a load that returns null
\* leaves the current token and the current email as they were.
C19_LoadFailureLeavesState ==
  LoadCalled =>
    /\ op.result = "returned"
    /\ (op.before.disk.state # "file" \/ ~op.args.readable) => op.value = << >>
    /\ (op.value = << >>) =>
         /\ currentToken = op.before.token
         /\ currentEmail = op.before.email
         /\ disk = op.before.disk

\* a poll set a token and an email in memory and its write left a truncated
\* file; the load after it returns null and both are still there
C19_Witness ==
  /\ LoadCalled
  /\ op.prev = "poll"
  /\ op.before.disk = CorruptFile
  /\ op.value = << >>
  /\ currentToken # << >>
  /\ currentEmail = << <<"a">> >>

\* C21: a saveTokenToStorage that resolves replaces the whole file: the
\* envelope on disk has the access_token, refresh_token, resource_url and
\* expiry of the record saved, the email saved, the type "qwen" and the
\* instant of the save, and the text holds no member the record lacks,
\* whatever the file held before.
C21_SaveReplacesEnvelope ==
  (saved # << >>) =>
    /\ disk.state = "file"
    /\ Envelope(disk).access_token = saved[1].token.access_token
    /\ Envelope(disk).refresh_token = saved[1].token.refresh_token
    /\ Envelope(disk).resource_url = saved[1].token.resource_url
    /\ Envelope(disk).expired = saved[1].token.expiry_date
    /\ Envelope(disk).email = saved[1].mail
    /\ Envelope(disk).type = "qwen"
    /\ Envelope(disk).last_refresh = saved[1].at
    /\ \A f \in OptionalMembers :
         f \in DOMAIN disk.text <=> saved[1].token[f] # Undefined

\* the file held an envelope with a refresh token and a resource URL; a
\* poll saved a token that has neither, and the file has neither
C21_Witness ==
  /\ op.name = "poll"
  /\ op.result = "returned"
  /\ op.before.disk = File(OldEnvelope)
  /\ saved # << >>
  /\ saved[1].token.refresh_token = Undefined
  /\ "refresh_token" \notin DOMAIN disk.text
  /\ "resource_url" \notin DOMAIN disk.text
  /\ Envelope(disk).email # OldEnvelope.email

\* C22: an updateTokenEmail that resolves with a token in memory and an
\* envelope on disk leaves the envelope's access_token, refresh_token,
\* resource_url and expiry as they were stored before the call, after any
\* earlier poll, refresh, load or update.
C22_UpdateKeepsStoredToken ==
  ( /\ op.name = "update"
    /\ op.prev \in {"none", "poll", "refresh", "load", "update"}
    /\ op.result = "returned"
    /\ op.before.token # << >>
    /\ op.before.disk.state = "file" ) =>
    /\ disk.state = "file"
    /\ Envelope(disk).access_token = Envelope(op.before.disk).access_token
    /\ Envelope(disk).refresh_token = Envelope(op.before.disk).refresh_token
    /\ Envelope(disk).resource_url = Envelope(op.before.disk).resource_url
    /\ Envelope(disk).expired = Envelope(op.before.disk).expired

\* C27: a pollForToken or a refreshToken that throws leaves the current
\* token and the current email as they were before the call.
C27_FailureLeavesMemory ==
  (op.name \in {"poll", "refresh"} /\ op.result = "thrown") =>
    /\ currentToken = op.before.token
    /\ currentEmail = op.before.email

(***************************************************************************)
(* Claims about storage failures in sendRequest, checked under Spec.       *)
(***************************************************************************)
\* C20: a failure of the storage write is never swallowed: a refreshToken
\* during which a write of the token was rejected does not report success,
\* so the sendRequest that called it goes no further than the refresh and
\* no token is returned to it.
C20_WriteFailureSurfaces ==
  \A c \in Calls :
    (\E k \in RefreshRequests(c) : CallWire(c)[k].write = "rejected") =>
      /\ sadopted[c] = << >>
      /\ spc[c] \in {"refresh", "refresh_sleep", "thrown"}

\* C29: within one refreshToken call, once a refresh request was answered
\* with a token response, the call sends no further refresh request, also
\* when the write of that token was rejected.
C29_OneRefreshPerSuccess ==
  \A c \in Calls :
    \A j \in RefreshRequests(c), k \in RefreshRequests(c) :
      j < k => CallWire(c)[j].write = "none"

\* C30: a sendRequest whose refreshToken has not returned a token sends no
\* downstream request; when the refresh fails, sendRequest throws the error
\* of the last refresh attempt: a 400, 401 or 403 ends the refresh at the
\* attempt it answers, any other failure at the MAX_RETRIES-th attempt.
C30_RefreshFailureStopsCall ==
  \A c \in Calls :
    (sarg[c] # Undefined /\ sadopted[c] = << >>) =>
      /\ ChatRequests(c) = {}
      /\ spc[c] \in {"refresh", "refresh_sleep", "thrown"}
      /\ (spc[c] = "thrown") =>
           LET last == CallWire(c)[Len(CallWire(c))]
           IN /\ last.kind = "refresh"
              /\ sresult[c].kind = "error"
              /\ sresult[c].status =
                   (IF last.status = 200 THEN NoStatus ELSE last.status)
              /\ \A k \in RefreshRequests(c) :
                   CallWire(c)[k].status \in AuthRejected =>
                     k = Len(CallWire(c))
              /\ Cardinality(RefreshRequests(c)) <= MAX_RETRIES
              /\ (last.status \notin AuthRejected) =>
                   Cardinality(RefreshRequests(c)) = MAX_RETRIES

\* the refresh endpoint answered 500 to every attempt of the refresh of call
\* 1: the call has thrown that error and sent nothing downstream
C30_Witness ==
  /\ spc[1] = "thrown"
  /\ sarg[1] # Undefined
  /\ sadopted[1] = << >>
  /\ Cardinality(RefreshRequests(1)) = MAX_RETRIES
  /\ sresult[1].status = 500
  /\ ChatRequests(1) = {}

(***************************************************************************)
(* SpecPkce: one verifier and its challenge, lines 105-122.                *)
(***************************************************************************)
\* the outcomes of crypto.randomBytes(32) tried: a run of one byte value
\* followed by a run of another
PkceByteValues == {0, 62, 128, 251, 255}
PkceSplits == {1, 2, 31}
PkceBuffers ==
  {[i \in 1 .. VERIFIER_BYTES |-> IF i <= k THEN a ELSE b] :
     a \in PkceByteValues, b \in PkceByteValues, k \in PkceSplits}

\* a device-code request, the status it met (NoStatus: fetch rejected) and
\* the body of the answer, << >> if it had none that parses
FlowRequest(challenge, status, body) ==
  [ code_challenge |-> challenge, code_challenge_method |-> "S256",
    status |-> status, body |-> body ]

PkceInit ==
  /\ RetryIdle /\ SdkIdle /\ PollIdle /\ SendIdle /\ HttpIdle /\ StoreIdle
  /\ PoolIdle
  /\ fpc = "bytes"
  /\ fattempt = 0
  /\ flast = Null
  /\ ffault = [kind |-> "none", status |-> NoStatus, field |-> "none",
               value |-> Undefined, changes |-> 0]
  /\ fgenerated = << >>
  /\ fwire = << >>
  /\ fsleeps = << >>
  /\ fresult = Null

\* line 160: const codeVerifier = generateCodeVerifier()
PkceVerifier ==
  /\ fpc = "bytes"
  /\ \E bytes \in PkceBuffers :
       fgenerated' = <<generateCodeVerifier(bytes)>>
  /\ fpc' = "verifier"
  /\ UNCHANGED <<fattempt, flast, ffault, fwire, fsleeps, fresult>>
  /\ UNCHANGED <<retryVars, sdkVars, pollVars, sendVars, httpVars, storeVars,
                 poolVars>>

\* lines 161-166: const codeChallenge = generateCodeChallenge(codeVerifier),
\* appended to the parameters of the request
PkceChallenge ==
  /\ fpc = "verifier"
  /\ fwire' = <<FlowRequest(generateCodeChallenge(fgenerated[1]), NoStatus,
                            << >>)>>
  /\ fpc' = "challenge"
  /\ UNCHANGED <<fattempt, flast, ffault, fgenerated, fsleeps, fresult>>
  /\ UNCHANGED <<retryVars, sdkVars, pollVars, sendVars, httpVars, storeVars,
                 poolVars>>

PkceNext == PkceVerifier \/ PkceChallenge

SpecPkce == PkceInit /\ [][PkceNext]_vars

\* the value of a base64url digit, and the bytes a base64url text without
\* padding stands for
Base64UrlValue(code) ==
  CASE code >= 65 /\ code <= 90 -> code - 65
    [] code >= 97 /\ code <= 122 -> code - 97 + 26
    [] code >= 48 /\ code <= 57 -> code - 48 + 52
    [] code = Minus -> 62
    [] code = Underscore -> 63
    [] OTHER -> -1
RECURSIVE FromBase64Url(_)
FromBase64Url(text) ==
  LET v(i) == Base64UrlValue(text[i])
  IN CASE Len(text) < 2 -> << >>
       [] Len(text) = 2 -> <<v(1) * 4 + (v(2) \div 16)>>
       [] Len(text) = 3 ->
            <<v(1) * 4 + (v(2) \div 16), (v(2) % 16) * 16 + (v(3) \div 4)>>
       [] OTHER ->
            <<v(1) * 4 + (v(2) \div 16), (v(2) % 16) * 16 + (v(3) \div 4),
              (v(3) % 4) * 64 + v(4)>>
              \o FromBase64Url(SubSeq(text, 5, Len(text)))
\* the length of the base64 text of a 32-byte digest, padding removed
DigestTextLen == (8 * 32 + 5) \div 6

\* C26: the code challenge is the base64url text, without padding, of the
\* SHA-256 digest of the characters of the verifier: it has 43 characters,
\* all of them letters, digits, '-' or '_', and it decodes to the digest of
\* the verifier's text.
C26_ChallengeIsHashOfVerifierText ==
  (fpc = "challenge") =>
    LET verifier == fgenerated[1]
        challenge == fwire[1].code_challenge
    IN /\ Len(challenge) = DigestTextLen
       /\ \A i \in 1 .. Len(challenge) : Base64UrlValue(challenge[i]) >= 0
       /\ FromBase64Url(challenge) = Sha256(verifier)

\* a verifier that has a '-' and a '_' (the bytes 251 and 255), whose
\* challenge differs from the text of the digest of the random bytes
C26_Witness ==
  /\ fpc = "challenge"
  /\ \E i \in 1 .. Len(fgenerated[1]) : fgenerated[1][i] = Minus
  /\ \E i \in 1 .. Len(fgenerated[1]) : fgenerated[1][i] = Underscore
  /\ Len(fgenerated[1]) = DigestTextLen
  /\ FromBase64Url(fwire[1].code_challenge)
       # Sha256(FromBase64Url(fgenerated[1]))

(***************************************************************************)
(* SpecFlow: one initiateDeviceFlow call, lines 158-179.                   *)
(***************************************************************************)
\* the outcomes of crypto.randomBytes(32) of the attempts
FlowBuffers ==
  {[i \in 1 .. VERIFIER_BYTES |-> b] : b \in {0, 251}}
\* lines 160-161: the verifier and the challenge an attempt can make
PkcePairs ==
  {[code_verifier |-> generateCodeVerifier(bytes),
    code_challenge |-> generateCodeChallenge(generateCodeVerifier(bytes))] :
     bytes \in FlowBuffers}

\* line 161: the challenge the attempt that generated "verifier" sent
ChallengeOf(verifier) ==
  (CHOOSE pair \in PkcePairs : pair.code_verifier = verifier).code_challenge

\* the answer of the endpoint to the k-th request: a device code that
\* belongs to that request
GoodBody(k) ==
  [user_code |-> k, device_code |-> k, verification_uri_complete |-> k]
DeviceFields == {"user_code", "device_code", "verification_uri_complete"}
\* how an attempt can fail:
\*   "http": a non-2xx status; "network": fetch rejects; "syntax": a 2xx
\*   answer that is not JSON; "null": the JSON text null; "malformed": a
\*   2xx JSON object with one field missing or empty
FlowFault(kind, status, field, value) ==
  [kind |-> kind, status |-> status, field |-> field, value |-> value]
FlowFaults ==
  {FlowFault("http", st, "none", Undefined) : st \in {400, 500}}
    \cup {FlowFault("network", NoStatus, "none", Undefined),
          FlowFault("syntax", 200, "none", Undefined),
          FlowFault("null", 200, "none", Undefined)}
    \cup {FlowFault("malformed", 200, f, v) :
            f \in DeviceFields, v \in {Undefined, EmptyString}}
NoFlowFault ==
  [ kind |-> "none", status |-> NoStatus, field |-> "none",
    value |-> Undefined, changes |-> 0 ]
\* ffault after an attempt that failed as f: how the last failed attempt
\* failed, and how often a failed attempt has differed from the one before
FlowFaulted(was, f) ==
  [ kind |-> f.kind, status |-> f.status, field |-> f.field,
    value |-> f.value,
    changes |-> IF was.kind = "none"
                     \/ FlowFault(was.kind, was.status, was.field,
                                  was.value) = f
                THEN was.changes ELSE was.changes + 1 ]
\* the failures open to this attempt: any of FlowFaults, as long as the
\* failures of the call have changed at most MaxFaultChanges times
FlowFaultNow ==
  {f \in FlowFaults : FlowFaulted(ffault, f).changes <= MaxFaultChanges}
\* the JSON objects the k-th request can be answered with
FlowBodies(k) ==
  {GoodBody(k)}
    \cup {[GoodBody(k) EXCEPT ![f.field] = f.value] :
            f \in {g \in FlowFaultNow : g.kind = "malformed"}}

\* line 173
FlowMalformedMutUndefinedOnly(body) ==
  \/ body.user_code = Undefined
  \/ body.device_code = Undefined
  \/ body.verification_uri_complete = Undefined
FlowMalformed(body) ==
  \/ ~Truthy(body.user_code)
  \/ ~Truthy(body.device_code)
  \/ ~Truthy(body.verification_uri_complete)

\* line 176: the codeVerifier in scope, the one this attempt generated
FlowVerifierMutFirst(generated) == generated[1]
FlowVerifier(generated) == generated[Len(generated)]

\* the errors of an attempt: what |-> "validation" is line 174's
\* new Error('设备授权返回缺少字段')
FlowErr(what, status, by) ==
  [kind |-> "error", status |-> status, by |-> by, what |-> what]

FlowInit ==
  /\ RetryIdle /\ SdkIdle /\ PollIdle /\ SendIdle /\ HttpIdle /\ StoreIdle
  /\ PoolIdle
  /\ fpc = "attempt"
  /\ fattempt = 1
  /\ flast = Null
  /\ ffault = NoFlowFault
  /\ fgenerated = << >>
  /\ fwire = << >>
  /\ fsleeps = << >>
  /\ fresult = Null

FlowAtFetch == fpc = "attempt" /\ fattempt <= MAX_RETRIES
FlowFrame ==
  UNCHANGED <<retryVars, sdkVars, pollVars, sendVars, httpVars, storeVars,
                 poolVars>>

\* withRetry's catch block, lines 32-41
FlowCaught(error) ==
  LET todo == OnFailure(error, fattempt, MAX_RETRIES)
  IN /\ flast' = error
     /\ fpc' = CASE todo = "throw" -> "thrown"
                 [] todo = "sleep" -> "sleeping"
                 [] OTHER -> "attempt"
     /\ fresult' = IF todo = "throw" THEN error ELSE fresult
     /\ fattempt' = IF todo = "next" THEN fattempt + 1 ELSE fattempt
     /\ fsleeps' = IF todo = "sleep"
                   THEN Append(fsleeps, Backoff(RETRY_DELAY_MS, fattempt))
                   ELSE fsleeps

\* lines 160-177: the attempt makes its verifier and challenge, posts, gets
\* a JSON object that holds the three fields, and returns it with the
\* verifier
FlowOk ==
  /\ FlowAtFetch
  /\ \E pair \in PkcePairs, body \in FlowBodies(Len(fwire) + 1) :
       /\ ~FlowMalformed(body)
       /\ fgenerated' = Append(fgenerated, pair.code_verifier)
       /\ fwire' = Append(fwire,
            FlowRequest(pair.code_challenge, 200, <<body>>))
       /\ fresult' =
            [ kind |-> "value", status |-> NoStatus, by |-> fattempt,
              flow |-> [ user_code |-> body.user_code,
                         device_code |-> body.device_code,
                         verification_uri_complete |->
                           body.verification_uri_complete,
                         code_verifier |-> FlowVerifier(fgenerated') ] ]
       /\ ffault' = IF body = GoodBody(Len(fwire) + 1) THEN ffault
                    ELSE FlowFaulted(ffault,
                           CHOOSE f \in FlowFaultNow :
                             /\ f.kind = "malformed"
                             /\ body = [GoodBody(Len(fwire) + 1)
                                          EXCEPT ![f.field] = f.value])
  /\ fpc' = "returned"
  /\ UNCHANGED <<fattempt, flast, fsleeps>>
  /\ FlowFrame

\* lines 160-175: the JSON object lacks a field: the attempt throws the
\* validation error
FlowRejected ==
  /\ FlowAtFetch
  /\ \E pair \in PkcePairs, f \in FlowFaultNow :
       /\ f.kind = "malformed"
       /\ LET body == [GoodBody(Len(fwire) + 1) EXCEPT ![f.field] = f.value]
          IN /\ FlowMalformed(body)
             /\ fwire' = Append(fwire,
                  FlowRequest(pair.code_challenge, 200, <<body>>))
       /\ ffault' = FlowFaulted(ffault, f)
       /\ fgenerated' = Append(fgenerated, pair.code_verifier)
  /\ FlowCaught(FlowErr("validation", NoStatus, fattempt))
  /\ FlowFrame

\* lines 168-171 and 382-396: the post fails: fetch rejects, the status is
\* not 2xx (buildHttpError marks the error with it), response.json()
\* rejects, or the body is null and line 173 throws a TypeError
FlowPostFails ==
  /\ FlowAtFetch
  /\ \E pair \in PkcePairs, f \in FlowFaultNow :
       /\ f.kind \in {"http", "network", "syntax", "null"}
       /\ ffault' = FlowFaulted(ffault, f)
       /\ fgenerated' = Append(fgenerated, pair.code_verifier)
       /\ fwire' = Append(fwire,
            FlowRequest(pair.code_challenge, f.status, << >>))
       /\ FlowCaught(FlowErr(IF f.kind = "null" THEN "type" ELSE f.kind,
                             IF f.kind = "http" THEN f.status ELSE NoStatus,
                             fattempt))
  /\ FlowFrame

\* line 39: the timer fires
FlowWake ==
  /\ fpc = "sleeping"
  /\ fpc' = "attempt"
  /\ fattempt' = fattempt + 1
  /\ UNCHANGED <<flast, ffault, fgenerated, fwire, fsleeps, fresult>>
  /\ FlowFrame

\* lines 29 and 43: the loop test fails
FlowExhausted ==
  /\ fpc = "attempt"
  /\ fattempt > MAX_RETRIES
  /\ fpc' = "thrown"
  /\ fresult' = Exhausted(flast)
  /\ UNCHANGED <<fattempt, flast, ffault, fgenerated, fwire, fsleeps>>
  /\ FlowFrame

FlowNext ==
  \/ FlowOk
  \/ FlowRejected
  \/ FlowPostFails
  \/ FlowWake
  \/ FlowExhausted

SpecFlow == FlowInit /\ [][FlowNext]_vars

\* the answer to the k-th request was a JSON object without a non-empty
\* user_code, device_code or verification_uri_complete
LacksField(k) ==
  /\ fwire[k].status = 200
  /\ fwire[k].body # << >>
  /\ \E f \in DeviceFields : fwire[k].body[1][f] \in {Undefined, EmptyString}

\* C24: an attempt of initiateDeviceFlow whose response lacks a non-empty
\* user_code, device_code or verification_uri_complete does not return:
\* it throws the validation error, which carries no status and is retried;
\* when every answer is such a response the endpoint gets MAX_RETRIES
\* requests, with sleeps of 2, 4, 6 and 8 seconds between them, and then
\* the validation error is thrown.
C24_MalformedIsRetried ==
  /\ \A k \in 1 .. Len(fwire) :
       LacksField(k) =>
         /\ ~(fpc = "returned" /\ k = Len(fwire))
         /\ (k = Len(fwire)) =>
              /\ flast.what = "validation"
              /\ flast.status = NoStatus
  /\ (fpc = "thrown" /\ \A k \in 1 .. Len(fwire) : LacksField(k)) =>
       /\ Len(fwire) = MAX_RETRIES
       /\ fresult.kind = "error"
       /\ fresult.what = "validation"
       /\ fresult.status = NoStatus
       /\ fsleeps = <<RETRY_DELAY_MS, 2 * RETRY_DELAY_MS, 3 * RETRY_DELAY_MS,
                      4 * RETRY_DELAY_MS>>

\* every answer had an empty user_code; the call has thrown after
\* MAX_RETRIES requests
C24_Witness ==
  /\ fpc = "thrown"
  /\ Len(fwire) = MAX_RETRIES
  /\ \A k \in 1 .. Len(fwire) :
       LacksField(k) /\ fwire[k].body[1].user_code = EmptyString
  /\ fresult.what = "validation"

\* C25: the session initiateDeviceFlow returns holds the device code of
\* the last request sent, and its code_verifier is the verifier whose
\* challenge that request carried, whichever attempt succeeded.
C25_VerifierMatchesChallenge ==
  (fpc = "returned") =>
    /\ fresult.flow.device_code = Len(fwire)
    /\ fwire[fresult.flow.device_code].code_challenge =
         ChallengeOf(fresult.flow.code_verifier)

\* the third attempt succeeded, with a verifier other than the first
\* attempt's
C25_Witness ==
  /\ fpc = "returned"
  /\ fresult.by = 3
  /\ fgenerated[1] # fgenerated[3]
  /\ fresult.flow.code_verifier = fgenerated[3]
  /\ fwire[3].code_challenge # fwire[1].code_challenge

(***************************************************************************)
(* SpecRace: two sendRequest calls on one SDK instance whose steps          *)
(* interleave at their awaits, every request and every write succeeding.   *)
(* refreshToken is taken apart at its awaits: the post (line 243), then    *)
(* the save (line 257), whose writeFile opens the file and writes the text *)
(* in two steps of the file system and resolves in a later turn of the     *)
(* event loop, after which the downstream request of the call leaves.      *)
(***************************************************************************)
\* the token both calls find in memory: expired, with a refresh token
RaceToken ==
  [ access_token |-> 50, refresh_token |-> 51, token_type |-> "Bearer",
    resource_url |-> Undefined, expiry_date |-> 0 ]
\* the token responses of the endpoint to the k-th request
RaceResponses(k) ==
  {r \in TokenResponses(k) :
     /\ r.access_token = ServerAccess(k)
     /\ r.resource_url = Undefined
     /\ r.expires_in = 3600}

RaceInit ==
  /\ RetryIdle /\ PollIdle /\ SendIdle /\ HttpIdle /\ StoreIdle /\ FlowIdle
  /\ PoolIdle
  /\ currentToken = <<RaceToken>>
  /\ currentEmail \in StartEmails
  /\ disk = File(StorageData(RaceToken, RefreshEmail(currentEmail), 0, NoFile))
  /\ now = 0

\* lines 243-256: the refresh response of call c arrives; the token built
\* from it becomes the current token, and the save begins
RaceRefreshResponse(c) ==
  /\ AtFetch(c, "refresh")
  /\ \E response \in RaceResponses(RefreshCount + 1) :
       LET tokenData == RefreshTokenData(response, sarg[c], now)
       IN /\ currentToken' = <<tokenData>>
          /\ sadopted' = [sadopted EXCEPT ![c] =
               <<[token |-> tokenData, attempt |-> sattempt[c],
                  response |-> response]>>]
  /\ wire' = Append(wire,
       [Sent(c, "refresh", sarg[c], 200) EXCEPT !.write = "pending"])
  /\ spc' = [spc EXCEPT ![c] = "saving"]
  /\ UNCHANGED <<currentEmail, disk, now>>
  /\ UNCHANGED <<sattempt, slast, sarg, sresult, sstart, sfault, ssleeps>>
  /\ UNCHANGED <<retryVars, pollVars, auxVars>>

\* lines 313-318: mkdir resolves and writeFile opens the file, which
\* truncates it
RaceWriteOpen(c) ==
  /\ spc[c] = "saving"
  /\ disk' = CorruptFile
  /\ spc' = [spc EXCEPT ![c] = "writing"]
  /\ UNCHANGED <<currentToken, currentEmail, now>>
  /\ UNCHANGED <<sattempt, slast, sarg, sresult, sstart, sadopted, sfault,
                 wire, ssleeps>>
  /\ UNCHANGED <<retryVars, pollVars, auxVars>>

\* line 318: what the file holds after a writeFile that had opened it
\* writes its text from offset 0.  Over a file still empty the text is
\* whole.  Over a text another writeFile has written since the file was
\* opened, the text is whole if it is at least as long, and is followed by
\* the rest of the other text otherwise, which is no JSON.
Overwrite(old, env) ==
  IF old.state = "file" THEN {File(env), CorruptFile} ELSE {File(env)}

\* line 318: writeFile of call c writes its text: the file holds it, while
\* the promise of writeFile is still pending (the file is yet to be closed)
RaceWriteData(c) ==
  /\ spc[c] = "writing"
  /\ disk' \in Overwrite(disk,
       StorageData(sadopted[c][1].token, RefreshEmail(currentEmail), now,
                   disk))
  /\ spc' = [spc EXCEPT ![c] = "written"]
  /\ UNCHANGED <<currentToken, currentEmail, now>>
  /\ UNCHANGED <<sattempt, slast, sarg, sresult, sstart, sadopted, sfault,
                 wire, ssleeps>>
  /\ UNCHANGED <<retryVars, pollVars, auxVars>>

\* lines 318, 258-259 and 276-283: the promise of writeFile resolves;
\* refreshToken returns, sendRequest enters its dispatch loop and its
\* downstream request leaves, built from the token then current
RaceWriteDone(c) ==
  /\ spc[c] = "written"
  /\ spc' = [spc EXCEPT ![c] = "dispatch"]
  /\ sattempt' = [sattempt EXCEPT ![c] = 1]
  /\ wire' = Append(wire, ChatSent(c, currentToken, now))
  /\ UNCHANGED <<currentToken, currentEmail, disk, now>>
  /\ UNCHANGED <<slast, sarg, sresult, sstart, sadopted, sfault, ssleeps>>
  /\ UNCHANGED <<retryVars, pollVars, auxVars>>

RaceStep(c) ==
  \/ SendBegin(c)
  \/ RaceRefreshResponse(c)
  \/ RaceWriteOpen(c)
  \/ RaceWriteData(c)
  \/ RaceWriteDone(c)
  \/ DispatchOk(c)

RaceNext == RaceStep(1) \/ RaceStep(2)

SpecRace == RaceInit /\ [][RaceNext]_vars

\* both calls found the token expired and both have returned
BothRefreshed ==
  /\ \A c \in Calls : spc[c] = "returned"
  /\ \A c \in Calls : BeganExpiredRefreshable(c)

\* the envelope on disk is the one call c wrote
WroteEnvelope(c) ==
  /\ sadopted[c] # << >>
  /\ disk.state = "file"
  /\ Envelope(disk).access_token = sadopted[c][1].token.access_token
  /\ Envelope(disk).refresh_token = sadopted[c][1].token.refresh_token
  /\ Envelope(disk).expired = sadopted[c][1].token.expiry_date

\* C23: two overlapping sendRequest calls that both find the token expired
\* each send a refresh request of their own and each write an envelope, and
\* the file then holds one complete envelope, that of one of the two calls.
C23_RaceLeavesOneEnvelope ==
  BothRefreshed =>
    /\ \A c \in Calls : Cardinality(RefreshRequests(c)) = 1
    /\ \A c \in Calls : sadopted[c] # << >>
    /\ \E c \in Calls : WroteEnvelope(c)

\* C28: when the overlapping sendRequest calls have returned, every refresh
\* and every write having succeeded, the access_token of the current token
\* is the access_token of the envelope in the file.
C28_MemoryMatchesDisk ==
  (BothRefreshed /\ disk.state = "file") =>
    currentToken[1].access_token = Envelope(disk).access_token

(***************************************************************************)
(* SpecPool: one runWithConcurrency(items, limit, worker) call, lines      *)
(* 50-63 of src/upimg.ts (the same text as lines 291-304 of                *)
(* src/pdf2img.ts), with a worker that resolves.                           *)
(***************************************************************************)
\* the files of the items array (an array may name a file twice)
PoolFiles == {1, 2}
PoolItems == UNION {[1 .. n -> PoolFiles] : n \in 0 .. MaxItems}
PoolLimits == (-1) .. MaxLimit

\* line 54: Math.max(1, limit), the length of the array of callbacks
PoolSizeMutNoFloor(limit) == limit
PoolSize(limit) == IF limit > 1 THEN limit ELSE 1

\* what worker(item) resolves to: the outcome for that file (lines 74-81)
WorkerResult(item) == [file |-> item]

\* line 57: results[current] = value
Stored(results, current, value) ==
  [i \in DOMAIN results \cup {current} |->
     IF i = current THEN value ELSE results[i]]

Awaiting(current) == [state |-> "await", current |-> current]
Returned == [state |-> "returned", current |-> -1]

PoolInit ==
  /\ RetryIdle /\ SdkIdle /\ PollIdle /\ SendIdle /\ HttpIdle /\ StoreIdle
  /\ FlowIdle
  /\ citems \in PoolItems
  /\ climit \in PoolLimits
  /\ cidx = 0
  /\ cresults = << >>
  /\ cworkers = << >>
  /\ chanded = << >>
  /\ ccompleted = << >>
  /\ cpc = "spawning"

PoolFrame ==
  UNCHANGED <<retryVars, sdkVars, pollVars, sendVars, httpVars, storeVars,
              flowVars>>

\* lines 54-58: Array.from starts the next callback, which runs up to its
\* first await: it takes the next index and calls worker
PoolSpawnTakes ==
  /\ cpc = "spawning"
  /\ Len(cworkers) < PoolSize(climit)
  /\ cidx < Len(citems)
  /\ cworkers' = Append(cworkers, Awaiting(cidx))
  /\ chanded' = Append(chanded, cidx)
  /\ cidx' = cidx + 1
  /\ UNCHANGED <<citems, climit, cresults, ccompleted, cpc>>
  /\ PoolFrame

\* lines 54-55: Array.from starts the next callback, which finds no item
\* left and returns
PoolSpawnIdle ==
  /\ cpc = "spawning"
  /\ Len(cworkers) < PoolSize(climit)
  /\ cidx >= Len(citems)
  /\ cworkers' = Append(cworkers, Returned)
  /\ UNCHANGED <<citems, climit, cidx, cresults, chanded, ccompleted, cpc>>
  /\ PoolFrame

\* line 61: every callback is started; runWithConcurrency awaits them
PoolAwaitAll ==
  /\ cpc = "spawning"
  /\ Len(cworkers) >= PoolSize(climit)
  /\ cpc' = "running"
  /\ UNCHANGED <<citems, climit, cidx, cresults, cworkers, chanded,
                 ccompleted>>
  /\ PoolFrame

\* lines 55-57: the worker call of callback w resolves; its value is
\* stored, and the callback takes the next index and calls worker again
PoolCompleteTakes(w) ==
  /\ cpc = "running"
  /\ cworkers[w].state = "await"
  /\ cidx < Len(citems)
  /\ cresults' = Stored(cresults, cworkers[w].current,
                        WorkerResult(citems[cworkers[w].current + 1]))
  /\ ccompleted' = Append(ccompleted, cworkers[w].current)
  /\ cworkers' = [cworkers EXCEPT ![w] = Awaiting(cidx)]
  /\ chanded' = Append(chanded, cidx)
  /\ cidx' = cidx + 1
  /\ UNCHANGED <<citems, climit, cpc>>
  /\ PoolFrame

\* lines 55-58: the worker call of callback w resolves; its value is
\* stored, no item is left and the callback returns
PoolCompleteReturns(w) ==
  /\ cpc = "running"
  /\ cworkers[w].state = "await"
  /\ cidx >= Len(citems)
  /\ cresults' = Stored(cresults, cworkers[w].current,
                        WorkerResult(citems[cworkers[w].current + 1]))
  /\ ccompleted' = Append(ccompleted, cworkers[w].current)
  /\ cworkers' = [cworkers EXCEPT ![w] = Returned]
  /\ UNCHANGED <<citems, climit, cidx, chanded, cpc>>
  /\ PoolFrame

\* lines 61-62: Promise.all resolves when every callback has returned;
\* results is returned
PoolResolve ==
  /\ cpc = "running"
  /\ \A w \in 1 .. Len(cworkers) : cworkers[w].state = "returned"
  /\ cpc' = "resolved"
  /\ UNCHANGED <<citems, climit, cidx, cresults, cworkers, chanded,
                 ccompleted>>
  /\ PoolFrame

PoolNext ==
  \/ PoolSpawnTakes
  \/ PoolSpawnIdle
  \/ PoolAwaitAll
  \/ \E w \in 1 .. Len(cworkers) : PoolCompleteTakes(w)
  \/ \E w \in 1 .. Len(cworkers) : PoolCompleteReturns(w)
  \/ PoolResolve

SpecPool == PoolInit /\ [][PoolNext]_vars

\* the worker calls in flight
InFlight == {w \in 1 .. Len(cworkers) : cworkers[w].state = "await"}
\* the indices of the items
ItemIndices == 0 .. (Len(citems) - 1)

\* C32: runWithConcurrency with a worker that resolves hands no item to the
\* worker twice, has at most max(1, limit) worker calls in flight, and
\* resolves only when every item was handed out once and every call has
\* resolved, with the result of item i at index i of the array returned,
\* in whatever order the calls resolved.
C32_PoolHandsEachItemOnce ==
  /\ \A j \in 1 .. Len(chanded), k \in 1 .. Len(chanded) :
       chanded[j] = chanded[k] => j = k
  /\ Cardinality(InFlight) <= (IF climit > 1 THEN climit ELSE 1)
  /\ (cpc = "resolved") =>
       /\ {chanded[k] : k \in 1 .. Len(chanded)} = ItemIndices
       /\ {ccompleted[k] : k \in 1 .. Len(ccompleted)} = ItemIndices
       /\ InFlight = {}
       /\ DOMAIN cresults = ItemIndices
       /\ \A i \in ItemIndices : cresults[i] = [file |-> citems[i + 1]]

\* three items, limit 2: the second call resolved first, the third item
\* went to the callback that had the second, and the call has resolved
C32_Witness ==
  /\ cpc = "resolved"
  /\ climit = 2
  /\ citems = <<1, 2, 1>>
  /\ ccompleted = <<1, 2, 0>>
  /\ cresults[0] = [file |-> 1]
  /\ cresults[1] = [file |-> 2]

====
